---- MODULE Spec2Model ----
(***************************************************************************)
(* Slot-graph dialog engine of the Medical-History-Interviewer:            *)
(* slot_schema.js (graph, traversal, validation), dialog_manager.js (turn  *)
(* controller, merge of multi-slot extractions), routerChain.js and        *)
(* extractSlotChain.js (the delegates' wrappers), memory.js (interaction   *)
(* log) and the host's sendMessage / POST /api/interview-next.             *)
(*                                                                         *)
(* JavaScript values are tagged records, so that a string, a boolean, a    *)
(* list, null and undefined can be compared.  Texts are specimen strings;  *)
(* the string functions (toLowerCase, trim, RegExp.test) are tables over   *)
(* the specimens.  Confidences are hundredths (0.7 is 70).                 *)
(***************************************************************************)
EXTENDS Integers, Sequences, FiniteSets, TLC

VARIABLES
    slots,             \* SLOT_SCHEMA.slots: [order, cfg]
    messages,          \* interviewMemory.messages
    interactionCount,  \* interviewMemory.interactionCount
    hybridMode,        \* DialogManager.hybridMode
    interviewState,    \* the host's interviewState (currentSlot, filledSlots, ...)
    loading,           \* the host's loading flag
    turn,              \* the last processResponse call: its inputs, path and result
    merge,             \* a call of processMultipleExtractions: input and output
    trav,              \* a call of getNextUnfilledSlot, one loop iteration per step
    question,          \* getNextQuestion's answer to the traversal in trav
    request,           \* a POST /api/interview-next of any client, and its answer
    corr,              \* the review's filledSlots and the last applyCorrections call
    stats,             \* what the last read of the memory returned
    sessionStartTime,  \* interviewMemory.sessionStartTime
    now,               \* the clock new Date() reads
    handlers,          \* the request handlers suspended in a delegate call
    managers,          \* the DialogManagers constructed so far
    last,              \* the last operation a handler carried out on the memory
    call               \* a call of a pure helper: its arguments and its result

vars == <<slots, messages, interactionCount, hybridMode, interviewState,
          loading, turn, merge, trav, question, request, corr, stats,
          sessionStartTime, now, handlers, managers, last, call>>

----------------------------------------------------------------------------
(* JavaScript values *)

\* F applied to the value of x, which is computed once (a const binding).
With(x, F(_)) == CHOOSE r \in {F(v) : v \in {x}} : TRUE

Str(s) == [t |-> "str", s |-> s, l |-> <<>>]
Bool(b) == [t |-> "bool", s |-> IF b THEN "true" ELSE "false", l |-> <<>>]
List(q) == [t |-> "list", s |-> "", l |-> q]
Null == [t |-> "null", s |-> "", l |-> <<>>]
Undefined == [t |-> "undefined", s |-> "", l |-> <<>>]

\* No slot id: the null that next_default, getNextUnfilledSlot and the host's
\* currentSlot use.
NoSlot == "null"

\* String.prototype.toLowerCase on the specimen texts.
toLowerCase(s) ==
    CASE s = "Yes" -> "yes"
      [] s = "Fertility Issues" -> "fertility issues"
      [] s = ".*FERTILITY.*" -> ".*fertility.*"
      [] s = "35 years old, Married" -> "35 years old, married"
      [] s = "Approved" -> "approved"
      [] s = "No" -> "no"
      [] s = "Jane Smith" -> "jane smith"
      [] s = "Without" -> "without"
      [] s = "has partner = No" -> "has partner = no"
      [] s = "I am single" -> "i am single"
      [] s = "change my full name to Jane Smith" -> "change my full name to jane smith"
      [] s = "chief complaint: my husband and I are trying"
            -> "chief complaint: my husband and i are trying"
      [] OTHER -> s

\* String.prototype.trim on the specimen texts.
trim(s) ==
    CASE s = "   " -> ""
      [] s = " a cold " -> "a cold"
      [] OTHER -> s

\* Array.prototype.join of a list of texts: the pieces of the joined string.
RECURSIVE join(_, _)
join(q, sep) ==
    IF q = <<>> THEN <<>>
    ELSE IF Len(q) = 1 THEN <<q[1]>>
    ELSE <<q[1], sep>> \o join(Tail(q), sep)

\* String(value): the pieces whose concatenation is the string.
String(v) ==
    CASE v.t = "str" -> IF v.s = "" THEN <<>> ELSE <<v.s>>
      [] v.t = "bool" -> <<v.s>>
      [] v.t = "list" -> join(v.l, ",")
      [] v.t = "null" -> <<"null">>
      [] OTHER -> <<"undefined">>

\* JavaScript truthiness: !value is its negation.
Truthy(v) ==
    CASE v.t = "str" -> v.s # ""
      [] v.t = "bool" -> v.s = "true"
      [] v.t = "list" -> TRUE
      [] OTHER -> FALSE

----------------------------------------------------------------------------
(* slot_schema.js *)

\* A branch of a slot: the pattern (a key of cfg.branches) and its target.
Branch(p, target) == [pattern |-> p, target |-> target]

SLOT_SCHEMA ==
    [order |-> <<"full_name", "dob", "has_partner", "chief_complaint", "months_ttc">>,
     cfg |-> [id \in {"full_name", "dob", "has_partner", "chief_complaint", "months_ttc"} |->
        CASE id = "full_name" ->
               [question |-> "What is your full name?", slot |-> "full_name",
                branches |-> <<>>, next_default |-> "dob"]
          [] id = "dob" ->
               [question |-> "What is your date of birth?", slot |-> "dob",
                branches |-> <<>>, next_default |-> "has_partner"]
          [] id = "has_partner" ->
               [question |-> "Do you have a partner who will be part of treatment? (yes/no)",
                slot |-> "has_partner",
                branches |-> <<>>, next_default |-> "chief_complaint"]
          [] id = "chief_complaint" ->
               [question |-> "What brings you in today?", slot |-> "chief_complaint_text",
                branches |-> <<Branch(".*fertility.*", "months_ttc"),
                               Branch(".*pregnant.*", "months_ttc"),
                               Branch(".*trying.*", "months_ttc")>>,
                next_default |-> NoSlot]
          [] OTHER ->
               [question |-> "How many months have you been trying to get pregnant?",
                slot |-> "months_ttc",
                branches |-> <<>>, next_default |-> NoSlot]]]

\* Every key a filledSlots object is given in the model: the slots of the
\* schema and two names the schema does not have, one of them a name every
\* object has.
SlotNames == {"full_name", "dob", "has_partner", "chief_complaint", "months_ttc",
              "first_name", "constructor"}

SlotIds(sch) == DOMAIN sch.cfg

\* The properties an object literal inherits from Object.prototype (one
\* stands for all: constructor, toString, valueOf, hasOwnProperty, ...).
InheritedKeys == {"constructor"}

\* SLOT_SCHEMA.slots[slotName] is truthy: slots is an object literal, and the
\* lookup finds a slot of the schema or an inherited property.
HasSlotConfig(sch, slotName) == slotName \in SlotIds(sch) \cup InheritedKeys

\* SLOT_SCHEMA.slots[slotName].question of a name the lookup finds: an
\* inherited property has no question.
QuestionOf(sch, slotName) ==
    IF slotName \in SlotIds(sch) THEN sch.cfg[slotName].question ELSE "undefined"

\* The empty filledSlots object {}.
EmptySlots == [k \in SlotNames |-> Undefined]

\* new RegExp(pattern, 'i') throws for a pattern that is no regular expression.
RegExpCompiles(p) == p \notin {"yes|y(", "("}

\* The word a pattern of the form .*word.* looks for.
PatternWord(p) ==
    CASE p = ".*fertility.*" -> "fertility"
      [] p = ".*pregnant.*" -> "pregnant"
      [] p = ".*trying.*" -> "trying"
      [] OTHER -> p

\* The specimen texts (lowercase) that contain a word.
TextsContaining(w) ==
    CASE w = "fertility" -> {"fertility issues", "infertility", ".*fertility.*"}
      [] w = "pregnant" -> {"pregnant"}
      [] w = "trying" -> {"trying to conceive"}
      [] OTHER -> {w}

\* regex.test(value) for a pattern .*word.*: some piece of the string holds the
\* word; the pattern .* matches every string, the empty one too.
RegExpTest(p, pieces) ==
    \/ p = ".*"
    \/ \E i \in 1..Len(pieces) : pieces[i] \in TextsContaining(PatternWord(p))

\* pattern.split('|')
PatternSplit(p) ==
    CASE p = "yes|y(" -> <<"yes", "y(">>
      [] OTHER -> <<p>>

\* pattern.split('|').map(v => v.trim().toLowerCase())
PatternOptions(p) ==
    {toLowerCase(trim(PatternSplit(p)[i])) : i \in 1..Len(PatternSplit(p))}

\* The pieces make up the empty string.
IsEmptyString(pieces) == \A i \in 1..Len(pieces) : pieces[i] = ""

\* The branch test of getNextUnfilledSlot: the regex, or on a compile error the
\* equality with one of the |-separated alternatives.
isMatch(p, pieces) ==
    IF RegExpCompiles(p) THEN RegExpTest(p, pieces)
    ELSE Len(pieces) = 1 /\ pieces[1] \in PatternOptions(p)

\* String(filledSlots[current] ?? '').toLowerCase()
LowerValue(v) ==
    IF v.t \in {"null", "undefined"} THEN <<>>
    ELSE [i \in 1..Len(String(v)) |-> toLowerCase(String(v)[i])]

\* The keys an object enumerates before all others, in ascending order:
\* the canonical forms of the non-negative integers.
IntegerKey(p) == p \in {"1", "2"}
HasKey1(b) == b.pattern = "1"
HasKey2(b) == b.pattern = "2"
HasOtherKey(b) == ~IntegerKey(b.pattern)

\* Object.entries(cfg.branches), for the branches in the order the object
\* literal declares them.
ObjectEntries(branches) ==
    SelectSeq(branches, HasKey1) \o SelectSeq(branches, HasKey2)
       \o SelectSeq(branches, HasOtherKey)

\* A slip: a slot without a default successor is followed by the slot
\* declared after it.
NextOfInSchemaOrder(sch, current, filledSlots) ==
    LET cfg == sch.cfg[current]
        value == LowerValue(filledSlots[current])
        entries == ObjectEntries(cfg.branches)
        hits == {i \in 1..Len(entries) : isMatch(entries[i].pattern, value)}
        at == CHOOSE i \in 1..Len(sch.order) : sch.order[i] = current
    IN
    IF ~IsEmptyString(value) /\ hits # {}
    THEN entries[CHOOSE i \in hits : \A j \in hits : i <= j].target
    ELSE IF cfg.next_default # NoSlot THEN cfg.next_default
    ELSE IF at < Len(sch.order) THEN sch.order[at + 1]
    ELSE NoSlot

\* The successor the loop body computes for a filled slot: the target of the
\* first matching branch, else next_default || null.
NextOf(sch, current, filledSlots) ==
    LET cfg == sch.cfg[current]
        value == LowerValue(filledSlots[current])
        entries == ObjectEntries(cfg.branches)
        hits == {i \in 1..Len(entries) : isMatch(entries[i].pattern, value)}
    IN
    IF ~IsEmptyString(value) /\ hits # {}
    THEN entries[CHOOSE i \in hits : \A j \in hits : i <= j].target
    ELSE cfg.next_default

\* A slip: the set of visited slots outlives the call.
TraversalStartStale(sch) ==
    [current |-> sch.order[1], visited |-> IF call.done THEN {sch.order[1]} ELSE {},
     done |-> FALSE, result |-> NoSlot, cycle |-> FALSE, iterations |-> 0]

\* The state of one call of getNextUnfilledSlot before its loop.
TraversalStart(sch) ==
    [current |-> sch.order[1], visited |-> {}, done |-> FALSE, result |-> NoSlot,
     cycle |-> FALSE, iterations |-> 0]

\* A slip: the slot field of the configuration instead of the slot's id.
UnfilledResultSlotField(sch, current) == sch.cfg[current].slot

\* The value getNextUnfilledSlot returns for an unfilled slot.
UnfilledResult(sch, current) == current

\* A slip: the loop without its visited test.
TraversalStepUnguarded(sch, filledSlots, st) ==
    IF st.current = NoSlot
    THEN [st EXCEPT !.done = TRUE, !.result = NoSlot]
    ELSE IF filledSlots[st.current] = Undefined
    THEN [st EXCEPT !.done = TRUE, !.result = UnfilledResult(sch, st.current),
                    !.visited = @ \cup {st.current}, !.iterations = @ + 1]
    ELSE [st EXCEPT !.current = NextOf(sch, st.current, filledSlots),
                    !.visited = @ \cup {st.current}, !.iterations = @ + 1]

\* One evaluation of the while condition and, if it holds, of the loop body.
TraversalStep(sch, filledSlots, st) ==
    IF st.current = NoSlot
    THEN [st EXCEPT !.done = TRUE, !.result = NoSlot]
    ELSE IF st.current \in st.visited
    THEN [st EXCEPT !.done = TRUE, !.result = NoSlot, !.cycle = TRUE]
    ELSE IF filledSlots[st.current] = Undefined
    THEN [st EXCEPT !.done = TRUE, !.result = UnfilledResult(sch, st.current),
                    !.visited = @ \cup {st.current}, !.iterations = @ + 1]
    ELSE [st EXCEPT !.current = NextOf(sch, st.current, filledSlots),
                    !.visited = @ \cup {st.current}, !.iterations = @ + 1]

RECURSIVE Traverse(_, _, _)
Traverse(sch, filledSlots, st) ==
    IF st.done THEN st
    ELSE With(TraversalStep(sch, filledSlots, st),
              LAMBDA next : Traverse(sch, filledSlots, next))

getNextUnfilledSlot(sch, filledSlots) ==
    With(TraversalStart(sch), LAMBDA st : Traverse(sch, filledSlots, st)).result

\* The null of an error field.
NoError == "null"

\* A slip: an empty list is rejected like an empty string.
validateSlotValueRejectingEmptyList(sch, slotName, value) ==
    IF ~HasSlotConfig(sch, slotName)
    THEN [isValid |-> FALSE, error |-> "Invalid slot name"]
    ELSE IF value.t \in {"null", "undefined"}
    THEN [isValid |-> FALSE, error |-> "No value provided"]
    ELSE IF value.t = "bool"
    THEN [isValid |-> TRUE, error |-> NoError]
    ELSE IF (value.t = "str" /\ trim(value.s) = "") \/ (value.t = "list" /\ value.l = <<>>)
    THEN [isValid |-> FALSE, error |-> "Empty value provided"]
    ELSE [isValid |-> TRUE, error |-> NoError]

validateSlotValue(sch, slotName, value) ==
    IF ~HasSlotConfig(sch, slotName)
    THEN [isValid |-> FALSE, error |-> "Invalid slot name"]
    ELSE IF value.t \in {"null", "undefined"}
    THEN [isValid |-> FALSE, error |-> "No value provided"]
    ELSE IF value.t = "bool"
    THEN [isValid |-> TRUE, error |-> NoError]
    ELSE IF value.t = "str" /\ trim(value.s) = ""
    THEN [isValid |-> FALSE, error |-> "Empty value provided"]
    ELSE [isValid |-> TRUE, error |-> NoError]

----------------------------------------------------------------------------
(* memory.js: InterviewMemoryManager *)

\* The interaction log and its counter, as one value the operators thread.
Memory(msgs, count) == [messages |-> msgs, interactionCount |-> count]

\* The two messages one saveInteraction pushes.
InteractionMessages(q, userResponse, extractedValue, slotName) ==
    <<[type |-> "ai", content |-> q, extractedValue |-> Undefined,
       slotName |-> "undefined"],
      [type |-> "human", content |-> userResponse, extractedValue |-> extractedValue,
       slotName |-> slotName]>>

\* A slip: the interviewer's message is not pushed.
saveInteractionHumanOnly(mem, q, userResponse, extractedValue, slotName) ==
    Memory(Append(mem.messages,
                  InteractionMessages(q, userResponse, extractedValue, slotName)[2]),
           mem.interactionCount + 1)

\* A slip: the counter is advanced once for each message.
saveInteractionCountingMessages(mem, q, userResponse, extractedValue, slotName) ==
    Memory(mem.messages \o InteractionMessages(q, userResponse, extractedValue, slotName),
           mem.interactionCount + 2)

saveInteraction(mem, q, userResponse, extractedValue, slotName) ==
    [messages |-> mem.messages \o
                  InteractionMessages(q, userResponse, extractedValue, slotName),
     interactionCount |-> mem.interactionCount + 1]

\* getStats: the figures of the log.
getStats(mem) ==
    [totalMessages |-> Len(mem.messages), totalInteractions |-> mem.interactionCount]

\* getFilledSlots: for each slot the extracted value of the last respondent
\* message that has a slot name and a truthy extracted value.
getFilledSlots(mem) ==
    [k \in SlotNames |->
        LET idx == {i \in 1..Len(mem.messages) :
                      /\ mem.messages[i].type = "human"
                      /\ mem.messages[i].slotName = k
                      /\ Truthy(mem.messages[i].extractedValue)}
        IN IF idx = {} THEN Undefined
           ELSE mem.messages[CHOOSE i \in idx : \A j \in idx : j <= i].extractedValue]

----------------------------------------------------------------------------
(* dialog_manager.js: getNextQuestion, generateReviewMessage *)

\* A slip: every value is rendered by String.
formatValueAsString(val) == String(val)

\* formatValue of generateReviewMessage.
formatValue(val) ==
    CASE val.t = "bool" -> IF val.s = "true" THEN <<"Yes">> ELSE <<"No">>
      [] val.t = "list" -> join(val.l, ", ")
      [] OTHER -> String(val)

\* makeLabel of generateReviewMessage: the question without its parentheses
\* and its trailing question mark, or the capitalised slot name of a slot
\* that has no question.
makeLabel(sch, slotName) ==
    IF slotName \notin SlotIds(sch) THEN
        CASE slotName = "first_name" -> "First_name"
          [] slotName = "constructor" -> "Constructor"
          [] OTHER -> slotName
    ELSE LET q == sch.cfg[slotName].question IN
        CASE q = "What is your full name?" -> "What is your full name"
          [] q = "What is your date of birth?" -> "What is your date of birth"
          [] q = "Do you have a partner who will be part of treatment? (yes/no)" ->
                 "Do you have a partner who will be part of treatment"
          [] q = "What brings you in today?" -> "What brings you in today"
          [] q = "How many months have you been trying to get pregnant?" ->
                 "How many months have you been trying to get pregnant"
          [] OTHER -> q

\* The keys of a filledSlots object.
FilledKeys(filledSlots) == {k \in DOMAIN filledSlots : filledSlots[k] # Undefined}

\* The lines of the review message, one per key of filledSlots (the order of
\* the lines, the insertion order of the keys, is left out).
generateReviewMessage(sch, filledSlots) ==
    [k \in FilledKeys(filledSlots) |->
        [label |-> makeLabel(sch, k), text |-> formatValue(filledSlots[k])]]

\* An absent field and a present one.
None == <<>>
Some(x) == <<x>>

\* The object getNextQuestion builds from the traversal's answer.
QuestionFor(sch, nextSlot, filledSlots) ==
    IF nextSlot = NoSlot
    THEN [isReview |-> TRUE, isComplete |-> FALSE, slot |-> NoSlot,
          filledSlots |-> Some(filledSlots),
          message |-> [text |-> "### Please review your information",
                       lines |-> Some(generateReviewMessage(sch, filledSlots))]]
    ELSE [isReview |-> FALSE, isComplete |-> FALSE, slot |-> nextSlot,
          filledSlots |-> None,
          message |-> [text |-> sch.cfg[nextSlot].question, lines |-> None]]

getNextQuestion(sch, filledSlots) ==
    With(getNextUnfilledSlot(sch, filledSlots),
         LAMBDA nextSlot : QuestionFor(sch, nextSlot, filledSlots))

----------------------------------------------------------------------------
(* dialog_manager.js: applyCorrections *)

\* a !== b: two arrays are never the same object, so a list parsed from the
\* delegate's output differs from every stored value.
StrictlyEqual(a, b) == a.t # "list" /\ a = b

\* A {slotName, newValue} pair of the delegate's output.
Correction(slotName, newValue) == [slotName |-> slotName, newValue |-> newValue]

\* What the semantic-correction delegate did: llm.invoke threw, or its
\* output could not be parsed, or it was parsed into a list of corrections.
CorrectionsThrew == [kind |-> "throw", corrections |-> <<>>]
CorrectionsUnparsable == [kind |-> "unparsable", corrections |-> <<>>]
CorrectionsParsed(corrections) == [kind |-> "parsed", corrections |-> corrections]

\* A slip: the correction is written over the last logged exchange.
LogCorrectionReplacing(mem, slotName, userResponse, value) ==
    Memory(SubSeq(mem.messages, 1, Len(mem.messages) - 2)
              \o InteractionMessages(<<"Correction for ", slotName>>, <<userResponse>>,
                                     value, slotName),
           mem.interactionCount + 1)

\* saveInteraction(`Correction for ${slotName}`, userResponse, value, slotName)
LogCorrection(mem, slotName, userResponse, value) ==
    saveInteraction(mem, <<"Correction for ", slotName>>, <<userResponse>>, value,
                    slotName)

\* A slip: a pair is applied whatever the slot's value is.
ApplyPairAlways(sch, acc, userResponse, c) ==
    IF HasSlotConfig(sch, c.slotName)
    THEN [acc EXCEPT !.updated = [@ EXCEPT ![c.slotName] = c.newValue],
                     !.applied = Append(@, c),
                     !.mem = LogCorrection(@, c.slotName, userResponse, c.newValue)]
    ELSE acc

\* The body of the loop over parsed.corrections.
ApplyPair(sch, acc, userResponse, c) ==
    IF HasSlotConfig(sch, c.slotName)
       /\ ~StrictlyEqual(acc.updated[c.slotName], c.newValue)
    THEN [acc EXCEPT !.updated = [@ EXCEPT ![c.slotName] = c.newValue],
                     !.applied = Append(@, c),
                     !.mem = LogCorrection(@, c.slotName, userResponse, c.newValue)]
    ELSE acc

RECURSIVE ApplyPairs(_, _, _, _)
ApplyPairs(sch, acc, userResponse, corrections) ==
    IF corrections = <<>> THEN acc
    ELSE With(ApplyPair(sch, acc, userResponse, Head(corrections)),
              LAMBDA next : ApplyPairs(sch, next, userResponse, Tail(corrections)))

\* A slip: a failure of the delegate ends the call without the fallback.
AfterDelegateThrowing(sch, acc, userResponse, delegate) ==
    IF delegate.kind = "parsed"
    THEN ApplyPairs(sch, acc, userResponse, delegate.corrections)
    ELSE [acc EXCEPT !.aborted = TRUE]

\* The try block: the delegate's corrections, if it returned any.
AfterDelegate(sch, acc, userResponse, delegate) ==
    IF delegate.kind = "parsed"
    THEN ApplyPairs(sch, acc, userResponse, delegate.corrections)
    ELSE acc

\* /^(yes|true|y|have|with|married)/i and /^(no|false|n|single|none|without)/i
\* on the lowercase captured texts; "without" begins with "with".
AffirmativeStart(v) ==
    v \in {"yes", "true", "y", "have", "with", "married", "without", "yesterday"}
NegativeStart(v) == v \in {"no", "false", "n", "single", "none", "never"}

\* assignValue: the value updated[slot] gets for a captured text.
assignValue(filledSlots, slot, val) ==
    LET current == filledSlots[slot]
        looksBoolean == current.t = "bool" \/ slot \in {"has_partner"}
        v == toLowerCase(val)
    IN IF looksBoolean /\ AffirmativeStart(v) THEN Bool(TRUE)
       ELSE IF looksBoolean /\ NegativeStart(v) THEN Bool(FALSE)
       ELSE Str(trim(val))

\* match[1] of `${slotPattern}\\s*[:=]\\s*(.+)`, case-insensitive, on the
\* specimen responses.
StrictCapture(userResponse, slotName) ==
    CASE userResponse = "dob: 1987-01-01" /\ slotName = "dob" -> Some("1987-01-01")
      [] userResponse = "has partner = No" /\ slotName = "has_partner" -> Some("No")
      [] userResponse = "chief complaint: my husband and I are trying"
            /\ slotName = "chief_complaint" -> Some("my husband and I are trying")
      [] OTHER -> None

\* m[1] of regex1 (change|update|correct|set ... <words> ... to|is|= VALUE) or,
\* failing that, of regex2 (<words> is|= VALUE), on the specimen responses.
GenericCapture(userResponse, slotName) ==
    CASE userResponse = "change my full name to Jane Smith" /\ slotName = "full_name"
            -> Some("Jane Smith")
      [] userResponse = "has partner = No" /\ slotName = "has_partner" -> Some("No")
      [] OTHER -> None

\* /\bi am single\b/i and /\bmarried\b|\bspouse\b|\bhusband\b|\bwife\b/ on the
\* lowercase specimen responses.
IAmSingle(lower) == lower \in {"i am single"}
MarriedWord(lower) ==
    lower \in {"chief complaint: my husband and i are trying", "35 years old, married"}

\* An assignment of the fallback, logged if it changed updated[slotName].
AssignCaptured(acc, filledSlots, userResponse, slotName, capture) ==
    IF capture = None THEN acc
    ELSE LET value == assignValue(filledSlots, slotName, capture[1])
         IN IF StrictlyEqual(acc.updated[slotName], value)
            THEN [acc EXCEPT !.updated = [@ EXCEPT ![slotName] = value]]
            ELSE [acc EXCEPT !.updated = [@ EXCEPT ![slotName] = value],
                             !.mem = LogCorrection(@, slotName, userResponse, value)]

\* An assignment of the keyword rules, logged whether it changes the value
\* or not.
AssignKeyword(acc, userResponse, slotName, value) ==
    [acc EXCEPT !.updated = [@ EXCEPT ![slotName] = value],
                !.mem = LogCorrection(@, slotName, userResponse, value)]

\* The body of the first loop of the fallback: the strict form.
StrictStep(acc, filledSlots, userResponse, slotName) ==
    AssignCaptured(acc, filledSlots, userResponse, slotName,
                   StrictCapture(userResponse, slotName))

\* A slip: the keyword rules are left out of the second loop.
GenericStepWithoutKeywords(acc, filledSlots, userResponse, slotName) ==
    AssignCaptured(acc, filledSlots, userResponse, slotName,
                   GenericCapture(userResponse, slotName))

\* The body of the second loop of the fallback: the natural-language forms,
\* then the keyword rules for has_partner.
GenericStep(acc, filledSlots, userResponse, slotName) ==
    LET lower == toLowerCase(userResponse)
        a1 == AssignCaptured(acc, filledSlots, userResponse, slotName,
                             GenericCapture(userResponse, slotName))
        a2 == IF IAmSingle(lower) /\ slotName = "has_partner"
              THEN AssignKeyword(a1, userResponse, slotName, Bool(FALSE)) ELSE a1
    IN IF MarriedWord(lower) /\ slotName = "has_partner"
       THEN AssignKeyword(a2, userResponse, slotName, Bool(TRUE)) ELSE a2

RECURSIVE StrictLoop(_, _, _, _)
StrictLoop(acc, filledSlots, userResponse, order) ==
    IF order = <<>> THEN acc
    ELSE With(StrictStep(acc, filledSlots, userResponse, Head(order)),
              LAMBDA next : StrictLoop(next, filledSlots, userResponse, Tail(order)))

RECURSIVE GenericLoop(_, _, _, _)
GenericLoop(acc, filledSlots, userResponse, order) ==
    IF order = <<>> THEN acc
    ELSE With(GenericStep(acc, filledSlots, userResponse, Head(order)),
              LAMBDA next : GenericLoop(next, filledSlots, userResponse, Tail(order)))

\* A slip: the call starts from an empty object.
CorrectionsStartEmpty(filledSlots, mem) ==
    [updated |-> [k \in DOMAIN filledSlots |-> Undefined], applied |-> <<>>,
     mem |-> mem, aborted |-> FALSE, afterDelegate |-> mem]

\* let updated = { ...filledSlots }, nothing applied or logged yet.
CorrectionsStart(filledSlots, mem) ==
    [updated |-> filledSlots, applied |-> <<>>, mem |-> mem, aborted |-> FALSE,
     afterDelegate |-> mem]

\* applyCorrections: the updated slots, the memory, the delegate's pairs that
\* were applied and the memory as the try block left it.
applyCorrections(sch, userResponse, filledSlots, delegate, mem) ==
    With(AfterDelegate(sch, CorrectionsStart(filledSlots, mem), userResponse, delegate),
         LAMBDA a :
            IF a.aborted THEN a
            ELSE With(StrictLoop([a EXCEPT !.afterDelegate = a.mem], filledSlots,
                                 userResponse, sch.order),
                      LAMBDA b : GenericLoop(b, filledSlots, userResponse, sch.order)))

----------------------------------------------------------------------------
(* dialog_manager.js: processMultipleExtractions *)

\* One candidate extraction.
Extraction(slotName, value, confidence) ==
    [slotName |-> slotName, value |-> value, confidence |-> confidence]

\* The confidence an extraction needs in processMultipleExtractions (0.7).
MergeThreshold == 70

\* A slip: the validation alone decides.
AcceptsAnyConfidence(sch, extraction) ==
    validateSlotValue(sch, extraction.slotName, extraction.value).isValid

\* The test of the loop body: is the extraction stored?
Accepts(sch, extraction) ==
    /\ validateSlotValue(sch, extraction.slotName, extraction.value).isValid
    /\ extraction.confidence >= MergeThreshold

\* The state of the loop before its first iteration.
MergeStart(filledSlots, mem) ==
    [updatedSlots |-> filledSlots, successfulExtractions |-> <<>>,
     failedExtractions |-> <<>>, mem |-> mem]

\* One iteration of the loop over the extractions.
MergeOne(sch, acc, extraction) ==
    IF Accepts(sch, extraction)
    THEN [acc EXCEPT
            !.updatedSlots = [@ EXCEPT ![extraction.slotName] = extraction.value],
            !.successfulExtractions = Append(@, extraction),
            !.mem = saveInteraction(@, <<QuestionOf(sch, extraction.slotName)>>,
                        <<"[Multi-extraction] ">> \o String(extraction.value),
                        extraction.value, extraction.slotName)]
    ELSE [acc EXCEPT
            !.failedExtractions = Append(@,
                [slotName |-> extraction.slotName, value |-> extraction.value,
                 confidence |-> extraction.confidence,
                 error |-> validateSlotValue(sch, extraction.slotName,
                                             extraction.value).error])]

RECURSIVE MergeLoop(_, _, _)
MergeLoop(sch, acc, extractions) ==
    IF extractions = <<>> THEN acc
    ELSE With(MergeOne(sch, acc, Head(extractions)),
              LAMBDA next : MergeLoop(sch, next, Tail(extractions)))

processMultipleExtractions(sch, extractions, filledSlots, mem) ==
    With(MergeStart(filledSlots, mem), LAMBDA acc : MergeLoop(sch, acc, extractions))

----------------------------------------------------------------------------
(* chains/routerChain.js *)

\* The confidence routeUserResponse asks of an extraction it passes on (0.7).
RouterThreshold == 70

\* userResponse.match(/(\d+)\s*years?\s*old/i): the date `01/01/${birthYear}`
\* of the age the response states (here in 2026), or "" when it states none.
AgeBirthDate(userResponse) ==
    CASE userResponse = "35 years old, Married" -> "01/01/1991"
      [] OTHER -> ""

marriedKeywords == {"married", "spouse", "husband", "wife", "partner"}
singleKeywords == {"single", "unmarried", "divorced", "widowed"}

\* The keywords a lowercase response includes.
KeywordsIn(lowerResponse) ==
    CASE lowerResponse = "35 years old, married" -> {"married"}
      [] OTHER -> {}

\* The post-processing extractMultipleSlots applies to one extraction.
PostProcess(extraction, userResponse) ==
    IF extraction.slotName = "dob" /\ extraction.value.t = "str"
       /\ AgeBirthDate(userResponse) # ""
    THEN [extraction EXCEPT !.value = Str(AgeBirthDate(userResponse))]
    ELSE IF extraction.slotName = "has_partner" /\ extraction.value.t = "str"
    THEN IF KeywordsIn(toLowerCase(userResponse)) \cap marriedKeywords # {}
         THEN [extraction EXCEPT !.value = Bool(TRUE)]
         ELSE IF KeywordsIn(toLowerCase(userResponse)) \cap singleKeywords # {}
         THEN [extraction EXCEPT !.value = Bool(FALSE)]
         ELSE extraction
    ELSE extraction

\* extractMultipleSlots: multi is the extraction delegate's outcome, an error
\* (no or unparsable output) or the list of extractions it wrote.
extractMultipleSlots(userResponse, multi) ==
    IF multi.threw THEN <<>>
    ELSE [i \in 1..Len(multi.extractions) |->
            PostProcess(multi.extractions[i], userResponse)]

\* A slip: every extraction is passed on.
PassesRouterAlways(extraction) == TRUE

\* The filter of routeUserResponse.
PassesRouter(extraction) == extraction.confidence >= RouterThreshold

\* routeUserResponse: decision is the routing delegate's outcome, "throw" for
\* an error or unparsable output, else the action it wrote.
routeUserResponse(sch, currentSlot, userResponse, decision, multi) ==
    IF currentSlot \notin SlotIds(sch) \/ decision = "throw"
    THEN [action |-> "ask", extractions |-> <<>>]
    ELSE IF decision = "extract"
    THEN [action |-> "extract",
          extractions |-> SelectSeq(extractMultipleSlots(userResponse, multi),
                                    PassesRouter)]
    ELSE [action |-> decision, extractions |-> <<>>]

\* generateClarificationQuestion: a text about the slot's question, written
\* by the delegate or, when it fails, by the fallback (one text stands for both).
generateClarificationQuestion(sch, currentSlot) ==
    <<"Could you provide more details about: ", sch.cfg[currentSlot].question>>

----------------------------------------------------------------------------
(* chains/extractSlotChain.js and DialogManager.extractSlotValue *)

\* The first branch pattern one of whose |-separated alternatives is the
\* lowercase response, or 0.
BranchAnswered(slotConfig, lowerResponse) ==
    LET hits == {i \in 1..Len(slotConfig.branches) :
                   \E j \in 1..Len(PatternSplit(slotConfig.branches[i].pattern)) :
                      lowerResponse =
                         toLowerCase(PatternSplit(slotConfig.branches[i].pattern)[j])}
    IN IF hits = {} THEN 0 ELSE CHOOSE i \in hits : \A j \in hits : i <= j

preprocessResponse(userResponse, slotConfig) ==
    LET lowerResponse == trim(toLowerCase(userResponse))
        b == BranchAnswered(slotConfig, lowerResponse)
    IN IF b # 0 THEN PatternSplit(slotConfig.branches[b].pattern)[1]
       ELSE IF lowerResponse \in {"yes", "y", "true"} THEN "yes"
       ELSE IF lowerResponse \in {"no", "n", "false"} THEN "no"
       ELSE userResponse

\* The confidence extractSlotValue asks of the delegate's result (0.7).
ExtractThreshold == 70

\* Whether extractSlotValue invokes the extraction chain.
CallsExtractionChain(sch, slotName, userResponse) ==
    preprocessResponse(userResponse, sch.cfg[slotName]) = userResponse

\* A slip: the confidence of the delegate's result is not looked at.
extractSlotValueAnyConfidence(sch, slotName, userResponse, single) ==
    IF ~CallsExtractionChain(sch, slotName, userResponse)
    THEN Str(preprocessResponse(userResponse, sch.cfg[slotName]))
    ELSE IF single.threw THEN Null
    ELSE single.value

\* extractSlotValue: single is the outcome of the extraction chain, an error
\* or {value, confidence}.
extractSlotValue(sch, slotName, userResponse, single) ==
    IF ~CallsExtractionChain(sch, slotName, userResponse)
    THEN Str(preprocessResponse(userResponse, sch.cfg[slotName]))
    ELSE IF single.threw THEN Null
    ELSE IF single.confidence >= ExtractThreshold /\ single.value # Null
    THEN single.value
    ELSE Null

----------------------------------------------------------------------------
(* dialog_manager.js: processResponse *)

NoMessage == [text |-> "undefined", lines |-> None]

\* { success: false, error, shouldReprompt: true, isClarification }
Reprompt(error, isClarification) ==
    [threw |-> FALSE, success |-> FALSE, filledSlots |-> None,
     extractedSlots |-> <<>>, isHybridExtraction |-> FALSE,
     isReview |-> FALSE, isComplete |-> FALSE, slot |-> NoSlot,
     message |-> NoMessage, error |-> error, shouldReprompt |-> TRUE,
     isClarification |-> isClarification]

\* { success: true, filledSlots, extractedSlots, isHybridExtraction, ...nextQuestion }
Success(updatedSlots, extractedSlots, isHybridExtraction, nextQuestion) ==
    [threw |-> FALSE, success |-> TRUE, filledSlots |-> Some(updatedSlots),
     extractedSlots |-> extractedSlots, isHybridExtraction |-> isHybridExtraction,
     isReview |-> nextQuestion.isReview, isComplete |-> nextQuestion.isComplete,
     slot |-> nextQuestion.slot, message |-> nextQuestion.message,
     error |-> <<>>, shouldReprompt |-> FALSE, isClarification |-> FALSE]

\* The TypeError of slotConfig.question for a slot the schema does not have.
Thrown ==
    [threw |-> TRUE, success |-> FALSE, filledSlots |-> None,
     extractedSlots |-> <<>>, isHybridExtraction |-> FALSE,
     isReview |-> FALSE, isComplete |-> FALSE, slot |-> NoSlot,
     message |-> NoMessage, error |-> <<"TypeError">>, shouldReprompt |-> FALSE,
     isClarification |-> FALSE]

\* What a call of processResponse leaves: its result, the memory, and which
\* way it went.
Outcome(result, mem, path, action, candidates, accepted, rejected, extracted) ==
    [result |-> result, mem |-> mem, path |-> path, action |-> action,
     candidates |-> candidates, accepted |-> accepted, rejected |-> rejected,
     extracted |-> extracted]

\* A slip: the question is chosen from the slots as they were before the turn.
NextQuestionAfterStale(sch, filledSlots, updatedSlots) ==
    [getNextQuestion(sch, filledSlots) EXCEPT
        !.filledSlots = IF @ = None THEN None ELSE Some(updatedSlots)]

\* The question processResponse returns after it stored values.
NextQuestionAfter(sch, filledSlots, updatedSlots) == getNextQuestion(sch, updatedSlots)

\* A slip: only null and undefined are taken for "nothing extracted".
NothingExtractedNullOnly(extractedValue) == extractedValue.t \in {"null", "undefined"}

\* if (!extractedValue)
NothingExtracted(extractedValue) == ~Truthy(extractedValue)

\* Standard single-slot processing after extractSlotValue has returned.
SingleSlotWith(sch, currentSlot, userResponse, filledSlots, mem, action, extractedValue) ==
    LET q == <<sch.cfg[currentSlot].question>>
        validation == validateSlotValue(sch, currentSlot, extractedValue)
        updatedSlots == [filledSlots EXCEPT ![currentSlot] = extractedValue]
    IN
    IF NothingExtracted(extractedValue)
    THEN Outcome(Reprompt(generateClarificationQuestion(sch, currentSlot),
                          TRUE),
                 saveInteraction(mem, q, <<userResponse>>, Null, currentSlot),
                 "single-nothing", action, <<>>, <<>>, <<>>, extractedValue)
    ELSE IF ~validation.isValid
    THEN Outcome(Reprompt(<<validation.error>>, FALSE),
                 saveInteraction(mem, q, <<userResponse>>, Null, currentSlot),
                 "single-invalid", action, <<>>, <<>>, <<>>, extractedValue)
    ELSE Outcome(With(NextQuestionAfter(sch, filledSlots, updatedSlots),
                      LAMBDA nextQuestion :
                         Success(updatedSlots, <<>>, FALSE, nextQuestion)),
                 saveInteraction(mem, q, <<userResponse>>, extractedValue, currentSlot),
                 "single-stored", action, <<>>, <<>>, <<>>, extractedValue)

\* Standard single-slot processing, the part of processResponse after the
\* hybrid block.
SingleSlot(sch, currentSlot, userResponse, filledSlots, d, mem, action) ==
    With(extractSlotValue(sch, currentSlot, userResponse, d.single),
         LAMBDA extractedValue :
            SingleSlotWith(sch, currentSlot, userResponse, filledSlots, mem, action,
                           extractedValue))

\* A slip: with no extraction accepted the turn goes on to the single-slot
\* processing.
HybridExtractFallingThrough(sch, currentSlot, userResponse, filledSlots, d, route, multiResult) ==
    IF Len(multiResult.successfulExtractions) > 0
    THEN Outcome(With(NextQuestionAfter(sch, filledSlots, multiResult.updatedSlots),
                      LAMBDA nextQuestion :
                         Success(multiResult.updatedSlots,
                                 multiResult.successfulExtractions, TRUE, nextQuestion)),
                 saveInteraction(multiResult.mem, <<sch.cfg[currentSlot].question>>,
                                 <<userResponse>>,
                                 multiResult.successfulExtractions[1].value, currentSlot),
                 "extract-stored", "extract", route.extractions,
                 multiResult.successfulExtractions, multiResult.failedExtractions,
                 Undefined)
    ELSE SingleSlot(sch, currentSlot, userResponse, filledSlots, d, multiResult.mem,
                    "extract")

\* case 'extract', after processMultipleExtractions has returned.
HybridExtractWith(sch, currentSlot, userResponse, filledSlots, d, route, multiResult) ==
    LET q == <<sch.cfg[currentSlot].question>>
    IN
    IF Len(multiResult.successfulExtractions) > 0
    THEN Outcome(With(NextQuestionAfter(sch, filledSlots, multiResult.updatedSlots),
                      LAMBDA nextQuestion :
                         Success(multiResult.updatedSlots,
                                 multiResult.successfulExtractions, TRUE, nextQuestion)),
                 saveInteraction(multiResult.mem, q, <<userResponse>>,
                                 multiResult.successfulExtractions[1].value, currentSlot),
                 "extract-stored", "extract", route.extractions,
                 multiResult.successfulExtractions, multiResult.failedExtractions,
                 Undefined)
    ELSE Outcome(Reprompt(generateClarificationQuestion(sch, currentSlot),
                          TRUE),
                 saveInteraction(multiResult.mem, q, <<userResponse>>, Null, currentSlot),
                 "extract-nothing", "extract", route.extractions,
                 multiResult.successfulExtractions, multiResult.failedExtractions,
                 Undefined)

\* case 'extract'
HybridExtract(sch, currentSlot, userResponse, filledSlots, d, mem, route) ==
    With(processMultipleExtractions(sch, route.extractions, filledSlots, mem),
         LAMBDA multiResult :
            HybridExtractWith(sch, currentSlot, userResponse, filledSlots, d, route,
                              multiResult))

\* A slip: the clarification is returned and the turn is not logged.
HybridClarifyWithoutLog(sch, currentSlot, userResponse, mem) ==
    Outcome(Reprompt(generateClarificationQuestion(sch, currentSlot), TRUE),
            mem, "clarify", "clarify", <<>>, <<>>, <<>>, Undefined)

\* case 'clarify'
HybridClarify(sch, currentSlot, userResponse, mem) ==
    Outcome(Reprompt(generateClarificationQuestion(sch, currentSlot), TRUE),
            saveInteraction(mem, <<sch.cfg[currentSlot].question>>, <<userResponse>>,
                            Null, currentSlot),
            "clarify", "clarify", <<>>, <<>>, <<>>, Undefined)

\* A slip: an error of the routing delegate ends the turn with an error.
RoutedThrowing(sch, hybrid, currentSlot, userResponse, filledSlots, d, mem, route) ==
    IF hybrid /\ d.decision = "throw"
    THEN Outcome(Thrown, mem, "thrown", "none", <<>>, <<>>, <<>>, Undefined)
    ELSE IF hybrid /\ route.action = "extract"
    THEN HybridExtract(sch, currentSlot, userResponse, filledSlots, d, mem, route)
    ELSE IF hybrid /\ route.action = "clarify"
    THEN HybridClarify(sch, currentSlot, userResponse, mem)
    ELSE SingleSlot(sch, currentSlot, userResponse, filledSlots, d, mem,
                    IF hybrid THEN route.action ELSE "none")

\* A slip: the router is consulted whatever the mode.
RoutedIgnoringHybridMode(sch, hybrid, currentSlot, userResponse, filledSlots, d, mem, route) ==
    IF route.action = "extract"
    THEN HybridExtract(sch, currentSlot, userResponse, filledSlots, d, mem, route)
    ELSE IF route.action = "clarify"
    THEN HybridClarify(sch, currentSlot, userResponse, mem)
    ELSE SingleSlot(sch, currentSlot, userResponse, filledSlots, d, mem, route.action)

\* processResponse after routeUserResponse has returned (route; it is not
\* called when hybrid mode is off): the switch, then the single-slot processing.
Routed(sch, hybrid, currentSlot, userResponse, filledSlots, d, mem, route) ==
    IF hybrid /\ route.action = "extract"
    THEN HybridExtract(sch, currentSlot, userResponse, filledSlots, d, mem, route)
    ELSE IF hybrid /\ route.action = "clarify"
    THEN HybridClarify(sch, currentSlot, userResponse, mem)
    ELSE SingleSlot(sch, currentSlot, userResponse, filledSlots, d, mem,
                    IF hybrid THEN route.action ELSE "none")

\* d holds the outcomes of the delegates the call may consult: decision (the
\* routing delegate), multi (the multi-slot extraction delegate), single
\* (the extraction chain of the current slot).
processResponse(sch, hybrid, currentSlot, userResponse, filledSlots, d, mem) ==
    IF currentSlot \notin SlotIds(sch)
    THEN Outcome(Thrown, mem, "thrown", "none", <<>>, <<>>, <<>>, Undefined)
    ELSE With(routeUserResponse(sch, currentSlot, userResponse, d.decision, d.multi),
              LAMBDA route :
                 Routed(sch, hybrid, currentSlot, userResponse, filledSlots, d, mem, route))

----------------------------------------------------------------------------
(* Idle values of the variables a specification does not use *)

TurnIdle == [called |-> FALSE, n |-> 0, approved |-> FALSE]
MergeIdle == [done |-> FALSE, extractions |-> <<>>, filledSlots |-> EmptySlots]
TravIdle == [active |-> FALSE]
QuestionIdle == [asked |-> FALSE]
RequestIdle == [pending |-> FALSE, answered |-> FALSE]
CorrIdle == [called |-> FALSE, n |-> 0, filledSlots |-> EmptySlots]
StatsIdle == [read |-> FALSE]

\* The request handlers the server may have in progress at a time.
Handlers == {1, 2}
HandlerIdle == [suspended |-> FALSE]
HandlersIdle == [h \in Handlers |-> HandlerIdle]
\* const dialogManager = new DialogManager() of server.js.
ManagersStart == {1}
LastIdle == [op |-> "none"]
CallIdle == [done |-> FALSE]

InterviewStateStart ==
    [isStarted |-> FALSE, isComplete |-> FALSE, isReview |-> FALSE,
     currentSlot |-> NoSlot, filledSlots |-> EmptySlots, retryCount |-> 0]

\* The state after the server and the host are constructed and started.
InitSession ==
    /\ messages = <<>>
    /\ interactionCount = 0
    /\ hybridMode = TRUE
    /\ interviewState = InterviewStateStart
    /\ loading = FALSE
    /\ turn = TurnIdle
    /\ request = RequestIdle
    /\ corr = CorrIdle
    /\ stats = StatsIdle
    /\ sessionStartTime = 0
    /\ now = 0
    /\ handlers = HandlersIdle
    /\ managers = ManagersStart
    /\ last = LastIdle
    /\ call = CallIdle

----------------------------------------------------------------------------
(* getNextUnfilledSlot and getNextQuestion on slot graphs of three slots *)

GraphIds == <<"full_name", "chief_complaint", "months_ttc">>

GraphIdSet == {GraphIds[i] : i \in 1..Len(GraphIds)}

\* The branches the graphs give to chief_complaint: none, one, or two with
\* different patterns; one pattern is no regular expression.
GraphPatterns == {".*fertility.*", "yes|y("}

GraphBranches ==
    {<<>>}
    \cup {<<Branch(p, t)>> : p \in GraphPatterns, t \in GraphIdSet}
    \cup {<<Branch(b[1], b[2]), Branch(b[3], b[4])>> :
            b \in {c \in GraphPatterns \X GraphIdSet \X GraphPatterns \X GraphIdSet :
                     c[1] # c[3]}}

\* Every slot graph on GraphIds: any default successor for each slot, any of
\* GraphBranches for chief_complaint; questions and slot fields as in SLOT_SCHEMA.
Graphs ==
    {[order |-> GraphIds,
      cfg |-> [id \in GraphIdSet |->
                 [question |-> SLOT_SCHEMA.cfg[id].question,
                  slot |-> SLOT_SCHEMA.cfg[id].slot,
                  branches |-> IF id = "chief_complaint" THEN br ELSE <<>>,
                  next_default |-> d[id]]]] :
       d \in [GraphIdSet -> GraphIdSet \cup {NoSlot}], br \in GraphBranches}

GraphValues == {Undefined, Str("a cold"), Str("Fertility Issues"), Str("yes")}

GraphFills ==
    {[k \in SlotNames |-> IF k \in GraphIdSet THEN f[k] ELSE Undefined] :
       f \in [GraphIdSet -> GraphValues]}

\* The slots an edge (a branch or the default) leads to from a slot.
Successors(sch, id) ==
    ({sch.cfg[id].next_default}
       \cup {sch.cfg[id].branches[i].target : i \in 1..Len(sch.cfg[id].branches)})
    \ {NoSlot}

RECURSIVE ReachableIn(_, _, _)
ReachableIn(sch, from, n) ==
    IF n = 0 THEN from
    ELSE ReachableIn(sch, from \cup UNION {Successors(sch, id) : id \in from}, n - 1)

\* No slot reaches itself along branch and default edges.
IsAcyclic(sch) ==
    \A id \in SlotIds(sch) :
        id \notin ReachableIn(sch, Successors(sch, id), Cardinality(SlotIds(sch)))

InitGraph ==
    /\ InitSession
    /\ slots \in Graphs
    /\ \E f \in GraphFills :
          trav = [active |-> TRUE, filledSlots |-> f, st |-> TraversalStart(slots)]
    /\ question = QuestionIdle
    /\ merge = MergeIdle

\* One iteration of the loop of getNextUnfilledSlot.
TraverseIteration ==
    /\ trav.active /\ ~trav.st.done
    /\ trav' = [trav EXCEPT !.st = TraversalStep(slots, trav.filledSlots, trav.st)]
    /\ UNCHANGED <<sessionStartTime, now, handlers, managers, last, call,
                   request, corr, stats, slots, messages, interactionCount, hybridMode,
                   interviewState,
                   loading, turn, merge, question>>

\* getNextQuestion, once its call of getNextUnfilledSlot has returned.
AskNextQuestion ==
    /\ trav.active /\ trav.st.done /\ ~question.asked
    /\ \E answer \in {QuestionFor(slots, trav.st.result, trav.filledSlots)} :
          question' = [asked |-> TRUE, answer |-> answer]
    /\ UNCHANGED <<sessionStartTime, now, handlers, managers, last, call,
                   request, corr, stats, slots, messages, interactionCount, hybridMode,
                   interviewState,
                   loading, turn, merge, trav>>

NextGraph == TraverseIteration \/ AskNextQuestion

SpecGraph == InitGraph /\ [][NextGraph]_vars

\* The loop runs on: nothing suspends getNextUnfilledSlot or getNextQuestion.
SpecGraphFair == SpecGraph /\ WF_vars(NextGraph)

----------------------------------------------------------------------------
(* processMultipleExtractions on lists of candidate extractions *)

MaxExtractions == 2

MergeCandidates ==
    {Extraction("full_name", Str("John"), 90),
     Extraction("full_name", Str("Jon"), 95),
     Extraction("full_name", Str("Jon"), 90),
     Extraction("full_name", Str("Johnny"), 69),
     Extraction("full_name", Str("Jo"), 70),
     Extraction("full_name", Str("   "), 90),
     Extraction("full_name", Null, 95),
     Extraction("has_partner", Bool(FALSE), 90),
     Extraction("has_partner", Bool(TRUE), 50),
     Extraction("has_partner", List(<<>>), 80),
     Extraction("has_partner", Bool(TRUE), 75),
     Extraction("chief_complaint", List(<<"fertility", "pain">>), 85),
     Extraction("first_name", Str("John"), 90)}

ListsOf(S, n) == UNION {[1..k -> S] : k \in 0..n}

MergeFills == {EmptySlots, [EmptySlots EXCEPT !["full_name"] = Str("Jane Doe")]}

InitMerge ==
    /\ InitSession
    /\ slots = SLOT_SCHEMA
    /\ \E x \in ListsOf(MergeCandidates, MaxExtractions), f \in MergeFills :
          merge = [done |-> FALSE, extractions |-> x, filledSlots |-> f]
    /\ trav = TravIdle
    /\ question = QuestionIdle

\* A call of processMultipleExtractions.
Merge ==
    /\ ~merge.done
    /\ \E out \in {processMultipleExtractions(slots, merge.extractions,
                       merge.filledSlots, Memory(messages, interactionCount))} :
          /\ merge' = [done |-> TRUE, extractions |-> merge.extractions,
                       filledSlots |-> merge.filledSlots,
                       updatedSlots |-> out.updatedSlots,
                       successfulExtractions |-> out.successfulExtractions,
                       failedExtractions |-> out.failedExtractions]
          /\ messages' = out.mem.messages
          /\ interactionCount' = out.mem.interactionCount
    /\ UNCHANGED <<sessionStartTime, now, handlers, managers, last, call,
                   request, corr, stats, slots, hybridMode, interviewState, loading, turn,
                   trav, question>>

NextMerge == Merge

SpecMerge == InitMerge /\ [][NextMerge]_vars

----------------------------------------------------------------------------
(* The interview: the host's sendMessage, POST /api/interview-next and the *)
(* turn controller, on SLOT_SCHEMA                                          *)

\* Turns after which the model takes no further turn.
MaxTurns == 2

\* The failed turns after which sendMessage asks for a skip.
RetryLimit == 2

Utterances == {"Yes", "Fertility Issues", "35 years old, Married"}

RouterDecisions == {"throw", "extract", "ask", "clarify"}

NoMulti == [threw |-> TRUE, extractions |-> <<>>]

\* What the multi-slot extraction delegate may write for one response.
MultiOutcomes ==
    {NoMulti} \cup
    {[threw |-> FALSE, extractions |-> x] : x \in
       {<<>>,
        <<Extraction("full_name", Str("Jane Doe"), 90)>>,
        <<Extraction("full_name", Str("Jane Doe"), 90),
          Extraction("dob", Str("35"), 80),
          Extraction("has_partner", Str("married"), 90)>>,
        <<Extraction("chief_complaint", Str("Fertility Issues"), 95)>>,
        <<Extraction("full_name", Str("Jane Doe"), 90),
          Extraction("constructor", Str("Jane"), 90)>>,
        <<Extraction("chief_complaint", Str("a cold"), 60),
          Extraction("first_name", Str("Jane"), 90),
          Extraction("months_ttc", Null, 90)>>,
        <<Extraction("has_partner", Bool(FALSE), 70),
          Extraction("chief_complaint", Str("a cold"), 60)>>,
        <<Extraction("dob", Str("1990-01-01"), 90),
          Extraction("full_name", Str("Jane Doe"), 90),
          Extraction("has_partner", Bool(FALSE), 70),
          Extraction("chief_complaint", Str("a cold"), 85)>>,
        <<Extraction("full_name", Str("Jane Doe"), 90),
          Extraction("dob", Str("1990-01-01"), 90),
          Extraction("has_partner", Bool(TRUE), 90),
          Extraction("chief_complaint", Str("Fertility Issues"), 95)>>}}

NoSingle == [threw |-> TRUE, value |-> Null, confidence |-> 0]

\* What the extraction chain of the current slot may return.
SingleOutcomes ==
    {NoSingle} \cup
    {[threw |-> FALSE, value |-> r[1], confidence |-> r[2]] :
       r \in {<<Str("Jane Doe"), 90>>, <<Str("a cold"), 69>>, <<Str("a cold"), 70>>,
              <<Str("Fertility Issues"), 95>>, <<Str("   "), 90>>,
              <<Bool(TRUE), 90>>, <<Bool(FALSE), 90>>, <<List(<<>>), 80>>,
              <<Null, 90>>}}

Delegates(decision, multi, single) ==
    [decision |-> decision, multi |-> multi, single |-> single]

\* POST /api/interview-next: the HTTP status, the body and the memory.
interviewNext(sch, hybrid, currentSlot, response, filledSlots, d, mem) ==
    IF currentSlot = NoSlot
    THEN [status |-> 200, mem |-> mem,
          out |-> Outcome(With(getNextQuestion(sch, EmptySlots),
                               LAMBDA nextQuestion :
                                  Success(EmptySlots, <<>>, FALSE, nextQuestion)),
                          mem, "start", "none", <<>>, <<>>, <<>>, Undefined)]
    ELSE With(processResponse(sch, hybrid, currentSlot, response, filledSlots, d, mem),
              LAMBDA out :
                 [status |-> IF out.result.threw THEN 500
                             ELSE IF ~out.result.success THEN 400 ELSE 200,
                  mem |-> out.mem, out |-> out])

\* startInterview of the host.
StartInterview ==
    /\ ~interviewState.isStarted /\ ~loading
    /\ \E data \in {getNextQuestion(slots, EmptySlots)} :
          interviewState' = [interviewState EXCEPT
                               !.isStarted = TRUE,
                               !.isReview = data.isReview,
                               !.currentSlot = data.slot,
                               !.filledSlots = EmptySlots]
    /\ loading' = FALSE
    /\ UNCHANGED <<sessionStartTime, now, handlers, managers, last, call,
                   request, corr, stats, slots, messages, interactionCount, hybridMode, turn,
                   merge, trav,
                   question>>

\* The host's state after a response with a status other than 2xx: the
\* catch block of sendMessage (skipFails: the skip request does not succeed).
HostAfterFailure(state, sch, skipFails) ==
    IF state.retryCount >= RetryLimit /\ ~skipFails
    THEN [state EXCEPT !.currentSlot = getNextQuestion(sch, EmptySlots).slot,
                       !.retryCount = 0]
    ELSE [state EXCEPT !.retryCount = @ + 1]

\* The host's state after a 2xx response.
HostAfterSuccess(state, data) ==
    IF data.isReview
    THEN [state EXCEPT !.isReview = TRUE, !.filledSlots = data.filledSlots[1]]
    ELSE IF data.isComplete
    THEN [state EXCEPT !.isComplete = TRUE, !.isReview = FALSE,
                       !.filledSlots = data.filledSlots[1]]
    ELSE [state EXCEPT !.currentSlot = data.slot, !.filledSlots = data.filledSlots[1],
                       !.retryCount = 0]

\* One sendMessage of the host with the request it makes of the server.
Turn(input, d, skipFails) ==
    /\ interviewState.isStarted /\ ~loading
    /\ trim(input) # ""
    /\ turn.n < MaxTurns
    /\ \E resp \in {interviewNext(slots, hybridMode, interviewState.currentSlot,
                                  trim(input), interviewState.filledSlots, d,
                                  Memory(messages, interactionCount))} :
       LET userResponse == trim(input)
           skipped == resp.status # 200 /\ interviewState.retryCount >= RetryLimit
                      /\ ~skipFails
       IN /\ messages' = resp.mem.messages
          /\ interactionCount' = resp.mem.interactionCount
          /\ interviewState' =
                IF resp.status = 200
                THEN HostAfterSuccess(interviewState, resp.out.result)
                ELSE HostAfterFailure(interviewState, slots, skipFails)
          /\ loading' = skipped
          /\ turn' = [called |-> TRUE, n |-> turn.n + 1, currentSlot |-> interviewState.currentSlot,
                      userResponse |-> userResponse,
                      filledSlots |-> interviewState.filledSlots,
                      hybridMode |-> hybridMode, d |-> d, status |-> resp.status,
                      result |-> resp.out.result, path |-> resp.out.path,
                      action |-> resp.out.action, candidates |-> resp.out.candidates,
                      accepted |-> resp.out.accepted, rejected |-> resp.out.rejected,
                      extracted |-> resp.out.extracted,
                      before |-> [messages |-> messages,
                                  interactionCount |-> interactionCount,
                                  interviewState |-> interviewState],
                      skipped |-> skipped,
                      approvedBefore |-> turn.approved,
                      approved |-> \/ turn.approved
                                   \/ /\ interviewState.isReview
                                      /\ toLowerCase(userResponse) = "approved"]
    /\ UNCHANGED <<sessionStartTime, now, handlers, managers, last, call,
                   request, corr, stats, slots, hybridMode, merge, trav, question>>

\* What the respondent types: during the review also the word the review
\* message asks for.
HostInputs == IF interviewState.isReview THEN Utterances \cup {"Approved"} ELSE Utterances

\* The skip request, which a failed turn makes at the retry limit, may fail.
SkipOutcomes(status) ==
    IF status # 200 /\ interviewState.retryCount >= RetryLimit THEN BOOLEAN ELSE {FALSE}

\* A turn the routing delegate is consulted in and answers "extract".
TurnExtract ==
    /\ hybridMode
    /\ \E input \in HostInputs, multi \in MultiOutcomes, skipFails \in BOOLEAN :
          /\ skipFails \in SkipOutcomes(400)
          /\ Turn(input, Delegates("extract", multi, NoSingle), skipFails)

\* A turn the routing delegate answers "clarify".
TurnClarify ==
    /\ hybridMode
    /\ \E input \in HostInputs, skipFails \in BOOLEAN :
          /\ skipFails \in SkipOutcomes(400)
          /\ Turn(input, Delegates("clarify", NoMulti, NoSingle), skipFails)

\* A turn that takes the single-slot path: the routing delegate answers
\* "ask" or another word, or fails, or hybrid mode is off.
TurnAsk ==
    \E input \in HostInputs, decision \in {"throw", "ask"},
       single \in SingleOutcomes, skipFails \in BOOLEAN :
       /\ skipFails \in SkipOutcomes(400)
       /\ ~hybridMode => decision = "ask"
       /\ Turn(input, Delegates(decision, NoMulti, single), skipFails)

\* POST /api/hybrid-mode
SetHybridMode ==
    /\ \E enabled \in BOOLEAN : hybridMode' = enabled
    /\ UNCHANGED <<sessionStartTime, now, handlers, managers, last, call,
                   request, corr, stats, slots, messages, interactionCount, interviewState,
                   loading, turn,
                   merge, trav, question>>

Init ==
    /\ InitSession
    /\ slots = SLOT_SCHEMA
    /\ merge = MergeIdle
    /\ trav = TravIdle
    /\ question = QuestionIdle

Next == StartInterview \/ TurnExtract \/ TurnClarify \/ TurnAsk \/ SetHybridMode

Spec == Init /\ [][Next]_vars

----------------------------------------------------------------------------
(* The interview from the review on *)

\* The host and the memory after a first turn that filled every slot of the
\* path and was answered with the review.
InitReview ==
    /\ slots = SLOT_SCHEMA
    /\ hybridMode = TRUE
    /\ loading = FALSE
    /\ turn = TurnIdle
    /\ merge = MergeIdle
    /\ trav = TravIdle
    /\ question = QuestionIdle
    /\ request = RequestIdle
    /\ corr = CorrIdle
    /\ stats = StatsIdle
    /\ sessionStartTime = 0
    /\ now = 0
    /\ handlers = HandlersIdle
    /\ managers = ManagersStart
    /\ last = LastIdle
    /\ call = CallIdle
    /\ \E input \in Utterances, multi \in MultiOutcomes :
          \E resp \in {interviewNext(SLOT_SCHEMA, TRUE, SLOT_SCHEMA.order[1], input,
                                     EmptySlots, Delegates("extract", multi, NoSingle),
                                     Memory(<<>>, 0))} :
             /\ resp.status = 200 /\ resp.out.result.isReview
             /\ messages = resp.mem.messages
             /\ interactionCount = resp.mem.interactionCount
             /\ interviewState =
                   HostAfterSuccess([InterviewStateStart EXCEPT
                                        !.isStarted = TRUE,
                                        !.currentSlot = SLOT_SCHEMA.order[1]],
                                    resp.out.result)

NextReview == TurnExtract \/ TurnClarify \/ TurnAsk

SpecReview == InitReview /\ [][NextReview]_vars

----------------------------------------------------------------------------
(* POST /api/interview-next for the requests any client may send *)

RequestFills ==
    {EmptySlots,
     [EmptySlots EXCEPT !["full_name"] = Str("Jane Doe"), !["dob"] = Str("1990-01-01")]}

\* The delegates' outcomes, by the delegate the router's decision leads to.
RequestDelegates ==
    {Delegates("extract", multi, NoSingle) : multi \in MultiOutcomes}
    \cup {Delegates("clarify", NoMulti, NoSingle)}
    \cup {Delegates(decision, NoMulti, single) :
             decision \in {"throw", "ask"}, single \in SingleOutcomes}

\* req.body: currentSlot is a slot of the schema, a name no object has, or
\* absent.
Requests ==
    [pending : {TRUE}, answered : {FALSE},
     currentSlot : (SlotNames \ InheritedKeys) \cup {NoSlot},
     response : Utterances, filledSlots : RequestFills, d : RequestDelegates]

\* The memory of the server when the request arrives: new, or holding one
\* interaction.
RequestMemories ==
    {Memory(<<>>, 0),
     saveInteraction(Memory(<<>>, 0), <<SLOT_SCHEMA.cfg["full_name"].question>>,
                     <<"Yes">>, Str("yes"), "full_name")}

InitRequest ==
    /\ \E mem \in RequestMemories :
          /\ messages = mem.messages
          /\ interactionCount = mem.interactionCount
    /\ hybridMode \in BOOLEAN
    /\ interviewState = InterviewStateStart
    /\ loading = FALSE
    /\ turn = TurnIdle
    /\ slots = SLOT_SCHEMA
    /\ merge = MergeIdle
    /\ trav = TravIdle
    /\ question = QuestionIdle
    /\ corr = CorrIdle
    /\ stats = StatsIdle
    /\ sessionStartTime = 0
    /\ now = 0
    /\ handlers = HandlersIdle
    /\ managers = ManagersStart
    /\ last = LastIdle
    /\ call = CallIdle
    /\ request \in Requests

\* The handler of POST /api/interview-next, from the request to the response.
PostInterviewNext ==
    /\ request.pending
    /\ \E resp \in {interviewNext(slots, hybridMode, request.currentSlot,
                                  request.response, request.filledSlots, request.d,
                                  Memory(messages, interactionCount))} :
          /\ request' = [pending |-> FALSE, answered |-> TRUE,
                         currentSlot |-> request.currentSlot,
                         response |-> request.response,
                         filledSlots |-> request.filledSlots, d |-> request.d,
                         status |-> resp.status, result |-> resp.out.result,
                         path |-> resp.out.path, action |-> resp.out.action,
                         accepted |-> resp.out.accepted,
                         before |-> [messages |-> messages,
                                     interactionCount |-> interactionCount]]
          /\ messages' = resp.mem.messages
          /\ interactionCount' = resp.mem.interactionCount
    /\ UNCHANGED <<sessionStartTime, now, handlers, managers, last, call,
                   slots, hybridMode, interviewState, loading, turn, merge, trav,
                   question, corr, stats>>

NextRequest == PostInterviewNext

SpecRequest == InitRequest /\ [][NextRequest]_vars

----------------------------------------------------------------------------
(* The review: applyCorrections, the reads of the memory, the reset and a *)
(* turn, in any order                                                      *)

\* Calls of applyCorrections after which the model makes no further call.
MaxCorrections == 2

CorrectionUtterances ==
    {"dob: 1987-01-01", "change my full name to Jane Smith",
     "change my birth year to 1987", "has partner = No",
     "chief complaint: my husband and I are trying", "I am single"}

\* What the semantic-correction delegate may do for one response.
CorrectionOutcomes ==
    {CorrectionsThrew, CorrectionsUnparsable,
     CorrectionsParsed(<<Correction("first_name", Str("Jane")),
                         Correction("full_name", Str("Jane Doe")),
                         Correction("has_partner", Bool(TRUE))>>),
     CorrectionsParsed(<<Correction("dob", Str("1987")), Correction("dob", Str("1987")),
                         Correction("chief_complaint", List(<<"headache">>))>>)}

\* The slots a review starts with.
ReviewFills ==
    {[EmptySlots EXCEPT !["full_name"] = Str("Jane Doe"), !["dob"] = Str("01/01/1989"),
                        !["has_partner"] = Bool(FALSE),
                        !["chief_complaint"] = Str("a cold")],
     [EmptySlots EXCEPT !["full_name"] = Str("Jane Doe"), !["dob"] = Str("1990-01-01"),
                        !["has_partner"] = Bool(TRUE),
                        !["chief_complaint"] = List(<<"headache">>)]}

\* The turn a client may submit during the review.
ReviewRequests ==
    {r \in Requests :
        /\ r.currentSlot = "chief_complaint" /\ r.response = "Yes"
        /\ r.filledSlots = EmptySlots
        /\ r.d \in {Delegates("clarify", NoMulti, NoSingle),
                    Delegates("extract",
                              [threw |-> FALSE,
                               extractions |->
                                  <<Extraction("has_partner", Bool(FALSE), 70),
                                    Extraction("chief_complaint", Str("a cold"), 60)>>],
                              NoSingle)}}

InitCorrect ==
    /\ messages = saveInteraction(Memory(<<>>, 0),
                                  <<SLOT_SCHEMA.cfg["chief_complaint"].question>>,
                                  <<"a cold">>, Str("a cold"), "chief_complaint").messages
    /\ interactionCount = 1
    /\ hybridMode = TRUE
    /\ interviewState = InterviewStateStart
    /\ loading = FALSE
    /\ turn = TurnIdle
    /\ slots = SLOT_SCHEMA
    /\ merge = MergeIdle
    /\ trav = TravIdle
    /\ question = QuestionIdle
    /\ \E f \in ReviewFills : corr = [CorrIdle EXCEPT !.filledSlots = f]
    /\ stats = StatsIdle
    /\ request \in ReviewRequests
    /\ sessionStartTime = 0
    /\ now = 0
    /\ handlers = HandlersIdle
    /\ managers = ManagersStart
    /\ last = LastIdle
    /\ call = CallIdle

\* A call of applyCorrections on the review's slots; the caller keeps what
\* it returns.
ApplyCorrections ==
    /\ corr.n < MaxCorrections
    /\ \E userResponse \in CorrectionUtterances, delegate \in CorrectionOutcomes :
          \E out \in {applyCorrections(slots, userResponse, corr.filledSlots, delegate,
                                       Memory(messages, interactionCount))} :
             /\ corr' = [called |-> TRUE, n |-> corr.n + 1,
                         filledSlots |-> out.updated,
                         userResponse |-> userResponse, delegate |-> delegate,
                         applied |-> out.applied, aborted |-> out.aborted,
                         afterDelegate |-> out.afterDelegate.messages,
                         logged |-> (Len(out.mem.messages) - Len(messages)) \div 2,
                         before |-> [filledSlots |-> corr.filledSlots,
                                     messages |-> messages,
                                     interactionCount |-> interactionCount],
                         prev |-> IF corr.called
                                  THEN Some([userResponse |-> corr.userResponse,
                                             filledSlots |-> corr.before.filledSlots,
                                             applied |-> corr.applied])
                                  ELSE None]
             /\ messages' = out.mem.messages
             /\ interactionCount' = out.mem.interactionCount
    /\ UNCHANGED <<sessionStartTime, now, handlers, managers, last, call,
                   slots, hybridMode, interviewState, loading, turn, merge, trav,
                   question, request, stats>>

\* getConversationSummary: "No conversation yet." for an empty log, and
\* else the figures of the log.
getConversationSummary(mem) == [empty |-> mem.messages = <<>>]

\* GET /api/conversation-stats
GetConversationStats ==
    /\ stats' = [read |-> TRUE, op |-> "stats",
                 summary |-> getConversationSummary(Memory(messages, interactionCount))]
    /\ UNCHANGED <<sessionStartTime, now, handlers, managers, last, call,
                   slots, messages, interactionCount, hybridMode, interviewState,
                   loading, turn, merge, trav, question, request, corr>>

\* POST /api/generate-summary: generateSummary reads the conversation and
\* its metadata.
GenerateSummary ==
    /\ stats' = [read |-> TRUE, op |-> "summary",
                 summary |-> getConversationSummary(Memory(messages, interactionCount))]
    /\ UNCHANGED <<sessionStartTime, now, handlers, managers, last, call,
                   slots, messages, interactionCount, hybridMode, interviewState,
                   loading, turn, merge, trav, question, request, corr>>

\* A slip: the reset forgets the counter.
clearMemoryKeepingCount(mem) == Memory(<<>>, mem.interactionCount)

\* clearMemory
clearMemory(mem) == Memory(<<>>, 0)

\* POST /api/reset-session: initializeSession clears the memory.
ResetSession ==
    /\ \E mem \in {clearMemory(Memory(messages, interactionCount))} :
          /\ messages' = mem.messages
          /\ interactionCount' = mem.interactionCount
    /\ sessionStartTime' = now
    /\ UNCHANGED <<now, handlers, managers, last, call,
                   slots, hybridMode, interviewState, loading, turn, merge, trav,
                   question, request, corr, stats>>

NextCorrect ==
    \/ ApplyCorrections
    \/ PostInterviewNext
    \/ GetConversationStats
    \/ GenerateSummary
    \/ ResetSession

SpecCorrect == InitCorrect /\ [][NextCorrect]_vars

----------------------------------------------------------------------------
(* assignValue on the texts the fallback may capture *)

\* The texts a pattern of the fallback may capture.
CapturedTexts ==
    {"yes", "Yes", "true", "y", "have", "with", "married",
     "no", "No", "false", "n", "single", "none", "without", "Without",
     "yesterday", "never", "Jane Smith", " a cold ", "1987-01-01"}

\* The values the slot may hold when the correction comes.
CurrentValues == {Undefined, Bool(TRUE), Bool(FALSE), Str("Jane Doe")}

InitAssign ==
    /\ messages = <<>>
    /\ interactionCount = 0
    /\ hybridMode = TRUE
    /\ interviewState = InterviewStateStart
    /\ loading = FALSE
    /\ turn = TurnIdle
    /\ request = RequestIdle
    /\ corr = CorrIdle
    /\ stats = StatsIdle
    /\ sessionStartTime = 0
    /\ now = 0
    /\ handlers = HandlersIdle
    /\ managers = ManagersStart
    /\ last = LastIdle
    /\ slots = SLOT_SCHEMA
    /\ merge = MergeIdle
    /\ trav = TravIdle
    /\ question = QuestionIdle
    /\ \E slot \in SlotIds(SLOT_SCHEMA), current \in CurrentValues, val \in CapturedTexts :
          call = [done |-> FALSE, fn |-> "assignValue", slot |-> slot,
                  filledSlots |-> [EmptySlots EXCEPT ![slot] = current], val |-> val]

\* assignValue(slot, val) on updated = { ...filledSlots }: what updated[slot]
\* becomes.
AssignValue ==
    /\ ~call.done /\ call.fn = "assignValue"
    /\ call' = [done |-> TRUE, fn |-> call.fn, slot |-> call.slot,
                filledSlots |-> call.filledSlots, val |-> call.val,
                result |-> assignValue(call.filledSlots, call.slot, call.val)]
    /\ UNCHANGED <<sessionStartTime, now, handlers, managers, last,
                   slots, messages, interactionCount, hybridMode, interviewState,
                   loading, turn, merge, trav, question, request, corr, stats>>

NextAssign == AssignValue

SpecAssign == InitAssign /\ [][NextAssign]_vars

----------------------------------------------------------------------------
(* The server: handlers that overlap at their delegate calls, DialogManagers *)
(* on the one interviewMemory, the reset and the clock                       *)

\* The DialogManagers a process may construct.
Managers == {1, 2}

\* The reading of the clock after which the model lets no time pass.
MaxClock == 2

\* Interactions in the log beyond which the model begins no further turn.
MaxInteractions == 2

\* interviewMemory as an operation finds it.
MemorySnapshot ==
    [messages |-> messages, interactionCount |-> interactionCount,
     sessionStartTime |-> sessionStartTime]

InitServer ==
    /\ messages = <<>>
    /\ interactionCount = 0
    /\ sessionStartTime = 0
    /\ now = 0
    /\ hybridMode = TRUE
    /\ interviewState = InterviewStateStart
    /\ loading = FALSE
    /\ turn = TurnIdle
    /\ request = RequestIdle
    /\ corr = CorrIdle
    /\ stats = StatsIdle
    /\ handlers = HandlersIdle
    /\ managers = ManagersStart
    /\ last = LastIdle
    /\ call = CallIdle
    /\ slots = SLOT_SCHEMA
    /\ merge = MergeIdle
    /\ trav = TravIdle
    /\ question = QuestionIdle

\* Time passes.
Tick ==
    /\ now < MaxClock
    /\ now' = now + 1
    /\ UNCHANGED <<slots, messages, interactionCount, hybridMode, interviewState,
                   loading, turn, merge, trav, question, request, corr, stats,
                   sessionStartTime, handlers, managers, last, call>>

\* new DialogManager(): the constructor calls initializeSession, which clears
\* interviewMemory.
NewDialogManager(m) ==
    /\ m \notin managers
    /\ managers' = managers \cup {m}
    /\ \E mem \in {clearMemory(Memory(messages, interactionCount))} :
          /\ messages' = mem.messages
          /\ interactionCount' = mem.interactionCount
    /\ sessionStartTime' = now
    /\ last' = [op |-> "construct", manager |-> m, managers |-> managers,
                at |-> now, before |-> MemorySnapshot, begun |-> MemorySnapshot]
    /\ UNCHANGED <<slots, hybridMode, interviewState, loading, turn, merge, trav,
                   question, request, corr, stats, now, handlers, call>>

\* POST /api/interview-next up to the first delegate call of processResponse,
\* where the handler is suspended.
BeginTurn(h, m) ==
    /\ ~handlers[h].suspended
    /\ m \in managers
    /\ interactionCount < MaxInteractions
    /\ \E r \in ReviewRequests :
          handlers' = [handlers EXCEPT
                          ![h] = [suspended |-> TRUE, manager |-> m,
                                  currentSlot |-> r.currentSlot,
                                  response |-> r.response,
                                  filledSlots |-> r.filledSlots, d |-> r.d,
                                  begun |-> MemorySnapshot]]
    /\ UNCHANGED <<slots, messages, interactionCount, hybridMode, interviewState,
                   loading, turn, merge, trav, question, request, corr, stats,
                   sessionStartTime, now, managers, last, call>>

\* The delegate answers and the handler runs to its response: all that
\* processResponse writes to the memory it writes here.
EndTurn(h) ==
    /\ handlers[h].suspended
    /\ \E resp \in {interviewNext(slots, hybridMode, handlers[h].currentSlot,
                                  handlers[h].response, handlers[h].filledSlots,
                                  handlers[h].d, Memory(messages, interactionCount))} :
          /\ messages' = resp.mem.messages
          /\ interactionCount' = resp.mem.interactionCount
    /\ handlers' = [handlers EXCEPT ![h] = HandlerIdle]
    /\ last' = [op |-> "turn", manager |-> handlers[h].manager, managers |-> managers,
                at |-> now, before |-> MemorySnapshot, begun |-> handlers[h].begun]
    /\ UNCHANGED <<slots, hybridMode, interviewState, loading, turn, merge, trav,
                   question, request, corr, stats, sessionStartTime, now, managers,
                   call>>

\* POST /api/reset-session, or initializeSession called on a DialogManager.
PostResetSession(m) ==
    /\ m \in managers
    /\ \E mem \in {clearMemory(Memory(messages, interactionCount))} :
          /\ messages' = mem.messages
          /\ interactionCount' = mem.interactionCount
    /\ sessionStartTime' = now
    /\ last' = [op |-> "reset", manager |-> m, managers |-> managers,
                at |-> now, before |-> MemorySnapshot, begun |-> MemorySnapshot]
    /\ UNCHANGED <<slots, hybridMode, interviewState, loading, turn, merge, trav,
                   question, request, corr, stats, now, handlers, managers, call>>

NextServer ==
    \/ Tick
    \/ \E m \in Managers : NewDialogManager(m)
    \/ \E h \in Handlers, m \in Managers : BeginTurn(h, m)
    \/ \E h \in Handlers : EndTurn(h)
    \/ \E m \in Managers : PostResetSession(m)

SpecServer == InitServer /\ [][NextServer]_vars

----------------------------------------------------------------------------
(* The successor of a filled slot, for the branches a slot may declare *)

BranchPatterns == {".*fertility.*", ".*", "1", "yes|y("}

BranchTargets == {"months_ttc", "dob"}

\* The branches of the slot, in the order of their declaration: none, one,
\* or two with different patterns.
BranchLists ==
    {<<>>}
    \cup {<<Branch(p, t)>> : p \in BranchPatterns, t \in BranchTargets}
    \cup {<<Branch(b[1], b[2]), Branch(b[3], b[4])>> :
            b \in {c \in BranchPatterns \X BranchTargets \X BranchPatterns \X BranchTargets :
                     c[1] # c[3]}}

\* The values the slot may be filled with.
BranchValues ==
    {Str("fertility issues"), Str("Fertility Issues"), Str("a cold"), Str("1"), Str(""),
     Str("yes"), Bool(TRUE), List(<<>>)}

\* SLOT_SCHEMA with other branches and another default for chief_complaint.
WithBranches(branches, next_default) ==
    [SLOT_SCHEMA EXCEPT !.cfg["chief_complaint"].branches = branches,
                        !.cfg["chief_complaint"].next_default = next_default]

\* Calls of getNextUnfilledSlot after which the model makes no further call.
MaxCalls == 3

\* full_name, dob and has_partner filled, and chief_complaint with the value.
FilledUpTo(value) ==
    [EmptySlots EXCEPT !["full_name"] = Str("Jane Doe"), !["dob"] = Str("1990-01-01"),
                       !["has_partner"] = Bool(TRUE), !["chief_complaint"] = value]

InitBranch ==
    /\ messages = <<>>
    /\ interactionCount = 0
    /\ hybridMode = TRUE
    /\ interviewState = InterviewStateStart
    /\ loading = FALSE
    /\ turn = TurnIdle
    /\ request = RequestIdle
    /\ corr = CorrIdle
    /\ stats = StatsIdle
    /\ sessionStartTime = 0
    /\ now = 0
    /\ handlers = HandlersIdle
    /\ managers = ManagersStart
    /\ last = LastIdle
    /\ merge = MergeIdle
    /\ trav = TravIdle
    /\ question = QuestionIdle
    /\ \E branches \in BranchLists \cup {SLOT_SCHEMA.cfg["chief_complaint"].branches},
          next_default \in {NoSlot, "months_ttc"} :
          slots = WithBranches(branches, next_default)
    /\ call = [done |-> FALSE, fn |-> "getNextUnfilledSlot", n |-> 0, returned |-> {}]

\* getNextUnfilledSlot(filledSlots), and the successor its loop computed for
\* chief_complaint; returned keeps the arguments and results of the calls
\* so far.
GetNextUnfilledSlot ==
    /\ call.fn = "getNextUnfilledSlot" /\ call.n < MaxCalls
    /\ \E value \in BranchValues :
          \E filledSlots \in {FilledUpTo(value)} :
             \E result \in {getNextUnfilledSlot(slots, filledSlots)} :
                call' = [done |-> TRUE, fn |-> call.fn, n |-> call.n + 1,
                         filledSlots |-> filledSlots,
                         next |-> NextOf(slots, "chief_complaint", filledSlots),
                         result |-> result, graph |-> slots,
                         returned |-> call.returned \cup {<<filledSlots, result>>}]
    /\ UNCHANGED <<sessionStartTime, now, handlers, managers, last,
                   slots, messages, interactionCount, hybridMode, interviewState,
                   loading, turn, merge, trav, question, request, corr, stats>>

NextBranch == GetNextUnfilledSlot

SpecBranch == InitBranch /\ [][NextBranch]_vars

----------------------------------------------------------------------------
(* validateSlotValue on the values an extraction may carry *)

ValidatedValues ==
    {Null, Undefined, Str(""), Str("   "), Str(" a cold "), Str("John"), Str("1"),
     Bool(TRUE), Bool(FALSE), List(<<>>), List(<<"headache">>)}

InitValidate ==
    /\ messages = <<>>
    /\ interactionCount = 0
    /\ hybridMode = TRUE
    /\ interviewState = InterviewStateStart
    /\ loading = FALSE
    /\ turn = TurnIdle
    /\ request = RequestIdle
    /\ corr = CorrIdle
    /\ stats = StatsIdle
    /\ sessionStartTime = 0
    /\ now = 0
    /\ handlers = HandlersIdle
    /\ managers = ManagersStart
    /\ last = LastIdle
    /\ slots = SLOT_SCHEMA
    /\ merge = MergeIdle
    /\ trav = TravIdle
    /\ question = QuestionIdle
    /\ \E slotName \in SlotNames, value \in ValidatedValues :
          call = [done |-> FALSE, fn |-> "validateSlotValue", slotName |-> slotName,
                  value |-> value]

\* validateSlotValue(slotName, value)
ValidateSlotValue ==
    /\ ~call.done /\ call.fn = "validateSlotValue"
    /\ call' = [done |-> TRUE, fn |-> call.fn, slotName |-> call.slotName,
                value |-> call.value,
                result |-> validateSlotValue(slots, call.slotName, call.value)]
    /\ UNCHANGED <<sessionStartTime, now, handlers, managers, last,
                   slots, messages, interactionCount, hybridMode, interviewState,
                   loading, turn, merge, trav, question, request, corr, stats>>

NextValidate == ValidateSlotValue

SpecValidate == InitValidate /\ [][NextValidate]_vars

----------------------------------------------------------------------------
(* The interview from a slot that has failed before: the retries of        *)
(* sendMessage and the skip                                                *)

\* What the host holds when it asks a question again: the slots filled on
\* the path before the current one.
RetryFills ==
    {EmptySlots,
     [EmptySlots EXCEPT !["full_name"] = Str("Jane Doe")],
     [EmptySlots EXCEPT !["full_name"] = Str("Jane Doe"), !["dob"] = Str("1990-01-01"),
                        !["has_partner"] = Bool(TRUE)]}

\* The memory after k turns on currentSlot that the router answered with
\* clarify.
RECURSIVE AfterFailedTurns(_, _, _)
AfterFailedTurns(k, currentSlot, filledSlots) ==
    IF k = 0 THEN Memory(<<>>, 0)
    ELSE With(AfterFailedTurns(k - 1, currentSlot, filledSlots),
              LAMBDA mem :
                 interviewNext(SLOT_SCHEMA, TRUE, currentSlot, "Yes", filledSlots,
                               Delegates("clarify", NoMulti, NoSingle), mem).mem)

\* The host and the memory after up to RetryLimit failed turns on one slot.
InitRetry ==
    /\ slots = SLOT_SCHEMA
    /\ hybridMode = TRUE
    /\ loading = FALSE
    /\ turn = TurnIdle
    /\ merge = MergeIdle
    /\ trav = TravIdle
    /\ question = QuestionIdle
    /\ request = RequestIdle
    /\ corr = CorrIdle
    /\ stats = StatsIdle
    /\ sessionStartTime = 0
    /\ now = 0
    /\ handlers = HandlersIdle
    /\ managers = ManagersStart
    /\ last = LastIdle
    /\ call = CallIdle
    /\ \E f \in RetryFills, k \in 0..RetryLimit :
          \E mem \in {AfterFailedTurns(k, getNextUnfilledSlot(SLOT_SCHEMA, f), f)} :
             /\ messages = mem.messages
             /\ interactionCount = mem.interactionCount
             /\ interviewState =
                   [InterviewStateStart EXCEPT
                       !.isStarted = TRUE,
                       !.currentSlot = getNextUnfilledSlot(SLOT_SCHEMA, f),
                       !.filledSlots = f,
                       !.retryCount = k]

NextRetry == TurnExtract \/ TurnClarify \/ TurnAsk

SpecRetry == InitRetry /\ [][NextRetry]_vars

----------------------------------------------------------------------------
(* The log under overlapping handlers: each saveInteraction runs to its end *)
(* (it awaits nothing), and a handler may be suspended before and after it  *)

\* The corrections a client may submit: the response, the delegate's outcome
\* and the slots of the review.
LogCorrections ==
    {[userResponse |-> "dob: 1987-01-01", delegate |-> o, filledSlots |-> f] :
        o \in {CorrectionsThrew,
               CorrectionsParsed(<<Correction("full_name", Str("Jane Smith")),
                                   Correction("has_partner", Bool(TRUE))>>)},
        f \in {[EmptySlots EXCEPT !["full_name"] = Str("Jane Doe"),
                                  !["dob"] = Str("01/01/1989"),
                                  !["has_partner"] = Bool(FALSE),
                                  !["chief_complaint"] = Str("a cold")]}}

\* The messages a turn or a correction writes, in the order of its calls of
\* saveInteraction: what it writes depends on its arguments and on the
\* delegates, not on the log.
TurnWrites(r) ==
    interviewNext(SLOT_SCHEMA, TRUE, r.currentSlot, r.response, r.filledSlots, r.d,
                  Memory(<<>>, 0)).mem.messages

CorrectionWrites(c) ==
    applyCorrections(SLOT_SCHEMA, c.userResponse, c.filledSlots, c.delegate,
                     Memory(<<>>, 0)).mem.messages

InitLog == InitServer

\* A handler begins a turn or a correction and is suspended at its first
\* await; pending holds the messages of the calls of saveInteraction to come.
BeginOperation(h) ==
    /\ ~handlers[h].suspended
    /\ interactionCount < MaxInteractions
    /\ \E w \in {TurnWrites(r) : r \in ReviewRequests}
                \cup {CorrectionWrites(c) : c \in LogCorrections} :
          handlers' = [handlers EXCEPT ![h] = [suspended |-> TRUE, pending |-> w]]
    /\ UNCHANGED <<slots, messages, interactionCount, hybridMode, interviewState,
                   loading, turn, merge, trav, question, request, corr, stats,
                   sessionStartTime, now, managers, last, call>>

\* The handler resumes and makes its next call of saveInteraction, which
\* runs without interruption; the handler is suspended again at the await
\* of the call.
SaveInteraction(h) ==
    /\ handlers[h].suspended
    /\ handlers[h].pending # <<>>
    /\ \E mem \in {saveInteraction(Memory(messages, interactionCount),
                                   handlers[h].pending[1].content,
                                   handlers[h].pending[2].content,
                                   handlers[h].pending[2].extractedValue,
                                   handlers[h].pending[2].slotName)} :
          /\ messages' = mem.messages
          /\ interactionCount' = mem.interactionCount
    /\ handlers' = [handlers EXCEPT
                       ![h].pending = SubSeq(@, 3, Len(@))]
    /\ last' = [op |-> "save", handler |-> h]
    /\ UNCHANGED <<slots, hybridMode, interviewState, loading, turn, merge, trav,
                   question, request, corr, stats, sessionStartTime, now, managers,
                   call>>

\* The handler has made its calls and sends its response.
Respond(h) ==
    /\ handlers[h].suspended
    /\ handlers[h].pending = <<>>
    /\ handlers' = [handlers EXCEPT ![h] = HandlerIdle]
    /\ UNCHANGED <<slots, messages, interactionCount, hybridMode, interviewState,
                   loading, turn, merge, trav, question, request, corr, stats,
                   sessionStartTime, now, managers, last, call>>

\* GET /api/conversation-stats and the other reads of the figures.
ReadStats ==
    /\ stats' = [read |-> TRUE, op |-> "stats",
                 stats |-> getStats(Memory(messages, interactionCount))]
    /\ UNCHANGED <<sessionStartTime, now, handlers, managers, last, call,
                   slots, messages, interactionCount, hybridMode, interviewState,
                   loading, turn, merge, trav, question, request, corr>>

NextLog ==
    \/ \E h \in Handlers : BeginOperation(h)
    \/ \E h \in Handlers : SaveInteraction(h)
    \/ \E h \in Handlers : Respond(h)
    \/ ReadStats
    \/ \E m \in ManagersStart : PostResetSession(m)

SpecLog == InitLog /\ [][NextLog]_vars

----------------------------------------------------------------------------
(* Properties of the traversal *)

\* C2: on a slot graph whose branch and default edges have no cycle, for any
\* filledSlots, getNextUnfilledSlot returns, and what it returns is the id of
\* a slot of the graph or null.
C2_AcyclicTraversalReturnsSlotOrNone ==
    /\ IsAcyclic(slots) => <>[]trav.st.done
    /\ [](IsAcyclic(slots) /\ trav.st.done =>
             trav.st.result \in SlotIds(slots) \cup {NoSlot})

\* A traversal of an acyclic graph that walked over filled slots and returned
\* an unfilled one.
C2_Witness ==
    /\ trav.active /\ trav.st.done /\ IsAcyclic(slots)
    /\ trav.st.iterations >= 2
    /\ trav.st.result \in SlotIds(slots)

\* C3: on any slot graph, cyclic ones included, getNextUnfilledSlot returns:
\* no slot is looked at twice, and when the walk comes back to a slot it has
\* visited the call reports the cycle and returns null.
C3_CycleDetectedTraversalTerminates ==
    /\ <>trav.st.done
    /\ [](trav.st.iterations <= Cardinality(SlotIds(slots)))
    /\ [](trav.st.cycle => trav.st.done /\ trav.st.result = NoSlot)

\* A traversal that went round a cycle of filled slots and stopped there.
C3_Witness ==
    /\ trav.active /\ trav.st.done /\ trav.st.cycle
    /\ ~IsAcyclic(slots)
    /\ \A id \in trav.st.visited : trav.filledSlots[id] # Undefined
    /\ trav.st.current \in trav.st.visited

\* C4: when the traversal stopped because of a cycle, the question object
\* built from its answer is no review (and no completion).
C4_CycleIsNotReview ==
    (trav.active /\ trav.st.cycle /\ question.asked) =>
        (~question.answer.isReview /\ ~question.answer.isComplete)

----------------------------------------------------------------------------
(* Properties of the merge *)

\* The positions of the input whose extraction may be accepted: a valid
\* value for a slot of the schema, with confidence 0.7 or more.
Acceptable(e) ==
    /\ e.slotName \in SlotIds(slots)
    /\ e.value.t \in {"str", "bool", "list"}
    /\ ~(e.value.t = "str" /\ e.value.s \in {"", "   "})
    /\ e.confidence >= 70

\* C5: every accepted extraction has confidence 0.7 or more, and a slot whose
\* value the merge changed holds the value of a candidate of confidence 0.7
\* or more.
C5_NoLowConfidenceAccepted ==
    merge.done =>
        /\ \A i \in 1..Len(merge.successfulExtractions) :
              merge.successfulExtractions[i].confidence >= 70
        /\ \A k \in SlotNames :
              merge.updatedSlots[k] # merge.filledSlots[k] =>
                 \E i \in 1..Len(merge.extractions) :
                    /\ merge.extractions[i].slotName = k
                    /\ merge.extractions[i].value = merge.updatedSlots[k]
                    /\ merge.extractions[i].confidence >= 70

\* A merge whose input held a valid value of low confidence beside an
\* accepted one.
C5_Witness ==
    /\ merge.done
    /\ Len(merge.successfulExtractions) >= 1
    /\ \E i \in 1..Len(merge.extractions) :
          /\ merge.extractions[i].confidence < 70
          /\ merge.extractions[i].value.t = "str"
          /\ merge.extractions[i].slotName = "full_name"

\* The acceptable candidate of a slot that wins: highest confidence, the
\* first one among equals.
Winner(k) ==
    LET idx == {i \in 1..Len(merge.extractions) :
                  merge.extractions[i].slotName = k /\ Acceptable(merge.extractions[i])}
    IN CHOOSE i \in idx :
          \A j \in idx :
             \/ merge.extractions[i].confidence > merge.extractions[j].confidence
             \/ /\ merge.extractions[i].confidence = merge.extractions[j].confidence
                /\ i <= j

\* C6: for a slot that several (or one) acceptable candidates of one merge
\* target, the accepted list has exactly one entry, and that entry and the
\* stored value are the winner's.
C6_HighestConfidenceWins ==
    merge.done =>
        \A k \in SlotNames :
           (\E i \in 1..Len(merge.extractions) :
               merge.extractions[i].slotName = k /\ Acceptable(merge.extractions[i]))
           =>
           /\ Cardinality({i \in 1..Len(merge.successfulExtractions) :
                              merge.successfulExtractions[i].slotName = k}) = 1
           /\ \A i \in 1..Len(merge.successfulExtractions) :
                 merge.successfulExtractions[i].slotName = k =>
                    merge.successfulExtractions[i].value =
                       merge.extractions[Winner(k)].value
           /\ merge.updatedSlots[k] = merge.extractions[Winner(k)].value

----------------------------------------------------------------------------
(* Properties of a turn *)

\* The last turn went into the single-slot processing: hybrid mode was off,
\* or the routing delegate answered "ask" or failed.
SingleSlotTurn ==
    /\ turn.called /\ turn.currentSlot \in SlotIds(slots)
    /\ (~turn.hybridMode \/ turn.d.decision \in {"ask", "throw"})

\* The last turn consulted the extraction chain of the current slot, and
\* what the chain returned.
ChainConsulted ==
    SingleSlotTurn /\ CallsExtractionChain(slots, turn.currentSlot, turn.userResponse)

\* The slots from the root on, each filled and followed by its successor,
\* end at a slot without successor.
PathFilled(filledSlots) ==
    \E n \in 1..Len(slots.order) :
       \E p \in [1..n -> SlotIds(slots)] :
          /\ p[1] = slots.order[1]
          /\ \A i \in 1..n : filledSlots[p[i]] # Undefined
          /\ \A i \in 1..(n - 1) : p[i + 1] = NextOf(slots, p[i], filledSlots)
          /\ NextOf(slots, p[n], filledSlots) = NoSlot

\* C1: a turn that accepted a value returns the review, with the rendered
\* review message, exactly when getNextUnfilledSlot of the updated slots is
\* null, and else the question of the slot getNextUnfilledSlot names; a
\* review is returned only with every slot of the path from the root filled.
C1_ReviewIffNoUnfilledSlot ==
    (turn.called /\ turn.result.success) =>
        LET updated == turn.result.filledSlots[1]
            nextSlot == getNextUnfilledSlot(slots, updated)
        IN /\ turn.result.isReview <=> nextSlot = NoSlot
           /\ turn.result.isReview =>
                 /\ turn.result.message.lines = Some(generateReviewMessage(slots, updated))
                 /\ PathFilled(updated)
           /\ ~turn.result.isReview =>
                 /\ turn.result.slot = nextSlot
                 /\ turn.result.message.text = slots.cfg[nextSlot].question

\* A turn that stored a value and returned the review.
C1_Witness ==
    /\ turn.called /\ turn.result.success /\ turn.result.isReview
    /\ turn.before.interviewState.filledSlots # turn.result.filledSlots[1]

\* C7: when the router chose extract and nothing was accepted, the result is
\* a reprompt without filledSlots, slot or review, and the host keeps its
\* filledSlots, its phase and (unless it then asks for a skip) its current slot.
C7_ExtractNothingKeepsState ==
    (turn.called /\ turn.action = "extract" /\ turn.accepted = <<>>) =>
        /\ ~turn.result.success /\ turn.result.shouldReprompt
        /\ turn.result.filledSlots = None
        /\ turn.result.slot = NoSlot /\ ~turn.result.isReview
        /\ interviewState.filledSlots = turn.before.interviewState.filledSlots
        /\ turn.filledSlots = turn.before.interviewState.filledSlots
        /\ interviewState.isReview = turn.before.interviewState.isReview
        /\ interviewState.isComplete = turn.before.interviewState.isComplete
        /\ ~turn.skipped =>
              interviewState.currentSlot = turn.before.interviewState.currentSlot

\* A turn in which the router chose extract, candidates reached the merge,
\* and none was accepted.
C7_Witness ==
    /\ turn.called /\ turn.action = "extract" /\ turn.accepted = <<>>
    /\ turn.candidates # <<>>
    /\ ~turn.result.success

\* C8: in the single-slot path, a value of an allowed type (text, list,
\* true, false) that the chain returns with confidence 0.7 or more and that
\* passes validation is stored in the current slot, and the turn succeeds.
C8_SingleSlotStoresEveryValue ==
    (/\ ChainConsulted /\ ~turn.d.single.threw
     /\ turn.d.single.confidence >= 70
     /\ turn.d.single.value.t \in {"str", "list", "bool"}
     /\ ~(turn.d.single.value.t = "str" /\ turn.d.single.value.s \in {"", "   "}))
    =>
        /\ turn.result.success
        /\ turn.result.filledSlots[1][turn.currentSlot] = turn.d.single.value

\* C9 as claimed: in the single-slot path the current slot is written only
\* when the chain returned a non-null value with confidence 0.7 or more;
\* every other turn is a reprompt that leaves filledSlots as it was.
C9_WrittenOnlyFromDelegate ==
    SingleSlotTurn =>
        \/ /\ ChainConsulted /\ ~turn.d.single.threw
           /\ turn.d.single.value # Null /\ turn.d.single.confidence >= 70
        \/ /\ ~turn.result.success /\ turn.result.shouldReprompt
           /\ interviewState.filledSlots = turn.before.interviewState.filledSlots

\* The token preprocessResponse puts in the place of a response that is yes,
\* y, true, no, n or false up to case and blanks.
YesNoToken(userResponse) ==
    CASE userResponse \in {"Yes", "YES", "Y", "y", "True", "true"} -> "yes"
      [] userResponse \in {"No", "NO", "N", "n", "False", "false"} -> "no"
      [] OTHER -> userResponse

\* The first alternatives of the branch patterns of a slot one of whose
\* alternatives is the response up to case and blanks.
BranchTokens(slotName, userResponse) ==
    {PatternSplit(slots.cfg[slotName].branches[i].pattern)[1] :
       i \in {j \in 1..Len(slots.cfg[slotName].branches) :
                \E k \in 1..Len(PatternSplit(slots.cfg[slotName].branches[j].pattern)) :
                   toLowerCase(PatternSplit(slots.cfg[slotName].branches[j].pattern)[k])
                      = trim(toLowerCase(userResponse))}}

\* C9 amended: in the single-slot path the current slot is written only with
\* the token preprocessResponse put in the place of the response (yes, no or
\* the first alternative of a branch pattern the response equals; the chain
\* is not consulted then), or with the non-null value the chain returned with
\* confidence 0.7 or more; every other turn is a reprompt that leaves
\* filledSlots as it was.
C9_WrittenOnlyFromDelegateOrPreprocessing ==
    SingleSlotTurn =>
        \/ /\ turn.result.success
           /\ \A k \in SlotNames \ {turn.currentSlot} :
                 turn.result.filledSlots[1][k] = turn.filledSlots[k]
           /\ \/ /\ BranchTokens(turn.currentSlot, turn.userResponse) = {}
                 /\ YesNoToken(turn.userResponse) # turn.userResponse
                 /\ turn.result.filledSlots[1][turn.currentSlot]
                       = Str(YesNoToken(turn.userResponse))
              \/ \E token \in BranchTokens(turn.currentSlot, turn.userResponse)
                                 \ {turn.userResponse} :
                    turn.result.filledSlots[1][turn.currentSlot] = Str(token)
              \/ /\ BranchTokens(turn.currentSlot, turn.userResponse)
                       \subseteq {turn.userResponse}
                 /\ YesNoToken(turn.userResponse) = turn.userResponse
                 /\ ~turn.d.single.threw
                 /\ turn.d.single.value # Null /\ turn.d.single.confidence >= 70
                 /\ turn.result.filledSlots[1][turn.currentSlot] = turn.d.single.value
        \/ /\ ~turn.result.success /\ turn.result.shouldReprompt
           /\ turn.result.filledSlots = None
           /\ interviewState.filledSlots = turn.before.interviewState.filledSlots

\* A single-slot turn that stored the token of a preprocessed response.
C9_Witness ==
    /\ SingleSlotTurn /\ ~ChainConsulted
    /\ turn.result.success
    /\ turn.result.filledSlots[1][turn.currentSlot] = Str("yes")

\* C10: a turn whose routing delegate failed is handled as one whose routing
\* delegate answered "ask" with no extractions: the single-slot processing
\* runs for the current slot, and the result is that turn's result, no error.
C10_RouterFailureIsAsk ==
    (turn.called /\ turn.hybridMode /\ turn.d.decision = "throw"
       /\ turn.currentSlot \in SlotIds(slots)) =>
        /\ ~turn.result.threw /\ turn.status \in {200, 400}
        /\ turn.action = "ask" /\ turn.candidates = <<>>
        /\ turn.path \in {"single-nothing", "single-invalid", "single-stored"}
        /\ turn.result =
              SingleSlot(slots, turn.currentSlot, turn.userResponse, turn.filledSlots,
                         turn.d, Memory(turn.before.messages,
                                        turn.before.interactionCount), "ask").result
        /\ Len(messages) = Len(turn.before.messages) + 2

\* A turn whose routing delegate failed and whose single-slot processing
\* stored the chain's value.
C10_Witness ==
    /\ turn.called /\ turn.hybridMode /\ turn.d.decision = "throw"
    /\ ChainConsulted /\ turn.result.success

----------------------------------------------------------------------------
(* Properties of processResponse on any request *)

\* C11: whatever the current slot of the request (a slot of the schema or
\* not), the response and the delegates' outcomes, processResponse returns a
\* result: no exception leaves it for the handler of the request.
C11_NoExceptionLeavesProcessResponse ==
    (request.answered /\ request.currentSlot # NoSlot) =>
        /\ ~request.result.threw
        /\ request.status \in {200, 400}

\* The request was handled by processResponse, which returned a result.
Handled ==
    request.answered /\ request.currentSlot # NoSlot /\ ~request.result.threw

\* C12 as claimed: every turn processResponse handles, accepted or rejected,
\* appends one interviewer message and one respondent message: the log grows
\* by two messages and the interaction count by one.
C12_OnePairPerTurn ==
    Handled =>
        /\ Len(messages) = Len(request.before.messages) + 2
        /\ interactionCount = request.before.interactionCount + 1

\* The pair of messages logged for an answer to a slot.
IsPair(ai, human, slotName, content, extractedValue) ==
    /\ ai.type = "ai" /\ ai.content = <<QuestionOf(SLOT_SCHEMA, slotName)>>
    /\ human.type = "human" /\ human.content = content
    /\ human.slotName = slotName /\ human.extractedValue = extractedValue

\* C12 amended: a turn processResponse handles appends, after what was
\* logged before, one pair of messages for each extraction it accepted
\* (none outside the extract action), in their order, and then one pair for
\* the turn itself: with k accepted extractions the log grows by 2(k+1)
\* messages and the interaction count by k+1.  A call that throws on a
\* current slot the schema does not have appends nothing.
C12_OnePairPerTurnAndPerAcceptedExtraction ==
    (request.answered /\ request.currentSlot # NoSlot) =>
        LET old == request.before.messages
            k == Len(request.accepted)
        IN IF request.result.threw
           THEN messages = old /\ interactionCount = request.before.interactionCount
           ELSE /\ Len(messages) = Len(old) + 2 * (k + 1)
                /\ interactionCount = request.before.interactionCount + k + 1
                /\ SubSeq(messages, 1, Len(old)) = old
                /\ k > 0 => request.action = "extract"
                /\ \A i \in 1..k :
                      IsPair(messages[Len(old) + 2 * i - 1], messages[Len(old) + 2 * i],
                             request.accepted[i].slotName,
                             <<"[Multi-extraction] ">>
                                \o String(request.accepted[i].value),
                             request.accepted[i].value)
                /\ IsPair(messages[Len(messages) - 1], messages[Len(messages)],
                          request.currentSlot, <<request.response>>,
                          IF k > 0 THEN request.accepted[1].value
                          ELSE IF request.result.success
                          THEN request.result.filledSlots[1][request.currentSlot]
                          ELSE Null)

\* A turn that accepted two or more extractions, with a log before it.
C12_Witness ==
    /\ Handled /\ Len(request.accepted) >= 2
    /\ request.before.messages # <<>>
    /\ Len(messages) = Len(request.before.messages) + 2 * (Len(request.accepted) + 1)

----------------------------------------------------------------------------
(* Properties of the interaction log and of applyCorrections *)

\* C13: the interaction log is append-only between resets: a turn, a call
\* of applyCorrections, a read of the statistics or a summary leaves every
\* logged message in its place and as it was, so the log before the step is
\* a prefix of the log after it; only the reset clears it.
C13_LogIsAppendOnly ==
    [][\/ ResetSession
       \/ /\ Len(messages') >= Len(messages)
          /\ SubSeq(messages', 1, Len(messages)) = messages]_vars

\* A log to which a correction and a turn have appended, and which was read.
C13_Witness ==
    /\ corr.called /\ request.answered /\ stats.read
    /\ corr.before.messages # <<>> /\ request.before.messages # <<>>
    /\ Len(messages) > Len(corr.before.messages)
    /\ Len(messages) > Len(request.before.messages)

----------------------------------------------------------------------------
(* Properties of the phases *)

\* C14: while the interview collects, filledSlots only grows: after a turn
\* every slot that was filled before the turn holds the value it held.
C14_FilledSlotsGrowWhileCollecting ==
    (turn.called /\ ~turn.before.interviewState.isReview) =>
        \A k \in SlotNames :
           turn.before.interviewState.filledSlots[k] # Undefined =>
              interviewState.filledSlots[k] = turn.before.interviewState.filledSlots[k]

\* C15: a turn in the review whose response is "approved" after trimming and
\* lowercasing completes the interview; after any other response the session
\* is still in the review.
C15_ApprovedCompletesTheReview ==
    (turn.called /\ turn.before.interviewState.isReview) =>
        IF toLowerCase(trim(turn.userResponse)) = "approved"
        THEN interviewState.isComplete /\ ~interviewState.isReview
        ELSE interviewState.isReview /\ ~interviewState.isComplete

\* C16: a turn submitted after the respondent approved the review is
\* rejected: it is not a success, and filledSlots and the phase are as they
\* were before it.
C16_CompleteIsTerminal ==
    (turn.called /\ turn.approvedBefore) =>
        /\ ~turn.result.success
        /\ interviewState.filledSlots = turn.before.interviewState.filledSlots
        /\ interviewState.isReview = turn.before.interviewState.isReview
        /\ interviewState.isComplete = turn.before.interviewState.isComplete

----------------------------------------------------------------------------
(* Properties of applyCorrections *)

\* The response names the slot in the strict form or in a change/update/set
\* form.
NamesSlot(userResponse, slotName) ==
    \/ StrictCapture(userResponse, slotName) # None
    \/ GenericCapture(userResponse, slotName) # None

\* C17: a correction that names one slot changes that slot only: when the
\* delegate applied nothing and the response names the slot s, every other
\* entry of the returned filledSlots is the entry that was passed in.
C17_CorrectionChangesNamedSlotOnly ==
    (corr.called /\ corr.applied = <<>>) =>
        \A s \in SlotIds(slots) :
           NamesSlot(corr.userResponse, s) =>
              \A k \in SlotNames \ {s} :
                 corr.filledSlots[k] = corr.before.filledSlots[k]

\* No pattern of the fallback matches the response: neither form for any
\* slot, nor a keyword rule.
MatchesNoPattern(userResponse) ==
    /\ \A s \in SlotNames : ~NamesSlot(userResponse, s)
    /\ ~IAmSingle(toLowerCase(userResponse))
    /\ ~MarriedWord(toLowerCase(userResponse))

RECURSIVE PairsThatDiffer(_, _, _)
PairsThatDiffer(sch, filledSlots, corrections) ==
    IF corrections = <<>> THEN <<>>
    ELSE LET c == Head(corrections)
         IN IF c.slotName \in SlotIds(sch) /\ filledSlots[c.slotName] # c.newValue
            THEN <<c>> \o PairsThatDiffer(sch, [filledSlots EXCEPT ![c.slotName] = c.newValue],
                                          Tail(corrections))
            ELSE PairsThatDiffer(sch, filledSlots, Tail(corrections))

\* C19: of the pairs the delegate returned, applyCorrections applies exactly
\* those that name a slot of the graph and carry a value other than the
\* slot's current one, and logs one correction interaction for each of them.
C19_AppliesExactlyKnownAndDifferent ==
    (corr.called /\ corr.delegate.kind = "parsed") =>
        /\ corr.applied = PairsThatDiffer(slots, corr.before.filledSlots,
                                          corr.delegate.corrections)
        /\ Len(corr.afterDelegate) = Len(corr.before.messages) + 2 * Len(corr.applied)

\* What the fallback alone leaves in a slot: the last of its assignments in
\* the order of the code (strict form, then natural-language form, then the
\* keyword rules), or the value passed in when nothing matches.
FallbackValue(userResponse, filledSlots, slotName) ==
    LET lower == toLowerCase(userResponse)
        strict == StrictCapture(userResponse, slotName)
        generic == GenericCapture(userResponse, slotName)
    IN IF slotName = "has_partner" /\ MarriedWord(lower) THEN Bool(TRUE)
       ELSE IF slotName = "has_partner" /\ IAmSingle(lower) THEN Bool(FALSE)
       ELSE IF generic # None THEN assignValue(filledSlots, slotName, generic[1])
       ELSE IF strict # None THEN assignValue(filledSlots, slotName, strict[1])
       ELSE filledSlots[slotName]

\* C20: when the delegate throws or returns output that cannot be parsed,
\* applyCorrections raises no error, applies no pair and logs nothing in the
\* try block, and returns what the pattern fallback makes of every known
\* slot.
C20_DelegateFailureDegradesToFallback ==
    (corr.called /\ corr.delegate.kind \in {"throw", "unparsable"}) =>
        /\ ~corr.aborted
        /\ corr.applied = <<>>
        /\ corr.afterDelegate = corr.before.messages
        /\ \A k \in SlotNames :
              corr.filledSlots[k] =
                 IF k \in SlotIds(slots)
                 THEN FallbackValue(corr.userResponse, corr.before.filledSlots, k)
                 ELSE corr.before.filledSlots[k]

\* The delegate failed and the fallback corrected a slot and logged it.
C20_Witness ==
    /\ corr.called /\ corr.delegate.kind \in {"throw", "unparsable"}
    /\ ~corr.aborted
    /\ \E k \in SlotIds(slots) :
          /\ NamesSlot(corr.userResponse, k)
          /\ corr.filledSlots[k] # corr.before.filledSlots[k]
    /\ corr.logged > 0

\* The texts that contain "1987".
Contains1987(v) ==
    v.t = "str" /\ v.s \in {"1987", "1987-01-01", "01/01/1987", "birth year 1987"}

\* C21: for the response "change my birth year to 1987" on filledSlots with
\* dob = "01/01/1989", in a call in which the delegate applies no pair, the
\* fallback sets dob to a text containing "1987" and logs exactly one
\* correction.
C21_BirthYearCorrectedByFallback ==
    (/\ corr.called
     /\ corr.userResponse = "change my birth year to 1987"
     /\ corr.before.filledSlots["dob"] = Str("01/01/1989")
     /\ corr.applied = <<>>) =>
        /\ Contains1987(corr.filledSlots["dob"])
        /\ corr.logged = 1

\* The tokens of the boolean-intent classifier, in any letter case.
AffirmativeToken(val) ==
    toLowerCase(val) \in {"yes", "true", "y", "have", "with", "married"}
NegativeToken(val) ==
    toLowerCase(val) \in {"no", "false", "n", "single", "none", "without"}

\* C22: assignValue on a slot that holds a boolean or whose id begins with
\* has_ or is_ stores true for an affirmative token and false for a negative
\* token; on any other slot it stores the captured text, trimmed.
C22_AssignValueCoercesTokens ==
    call.done =>
        LET looksBoolean == \/ call.filledSlots[call.slot].t = "bool"
                            \/ call.slot \in {"has_partner"}
        IN /\ (looksBoolean /\ AffirmativeToken(call.val)) => call.result = Bool(TRUE)
           /\ (looksBoolean /\ NegativeToken(call.val)) => call.result = Bool(FALSE)
           /\ ~looksBoolean => call.result = Str(trim(call.val))

----------------------------------------------------------------------------
(* Properties of the sessions, of overlapping handlers and of the reset *)

\* C23: independent sessions share no mutable state: an operation of one
\* DialogManager (its construction, a reset, a turn), carried out while
\* another DialogManager exists, leaves the log, the interaction count and
\* the start time as they were, for they are what the other one observes.
C23_SessionsShareNoState ==
    (last.op # "none" /\ last.managers \ {last.manager} # {}) =>
        /\ messages = last.before.messages
        /\ interactionCount = last.before.interactionCount
        /\ sessionStartTime = last.before.sessionStartTime

\* C24: the turns of one session are processed one after the other: with
\* one DialogManager, no two handlers are suspended in a delegate call at a
\* time, and a turn that resumes finds the log, the count and the start
\* time as they were when it was suspended, so no other turn has written in
\* between and no reset has cleared the log.
C24_TurnsAreSequential ==
    managers = ManagersStart =>
        /\ \A h1, h2 \in Handlers :
              (handlers[h1].suspended /\ handlers[h2].suspended) => h1 = h2
        /\ last.op = "turn" => last.before = last.begun

\* C25: a reset after any sequence of turns leaves the session as new: the
\* log is empty, the interaction count is 0 and the start time is the time
\* of the reset, as the constructor leaves them.
C25_ResetReturnsToFreshState ==
    last.op \in {"reset", "construct"} =>
        /\ messages = <<>>
        /\ interactionCount = 0
        /\ sessionStartTime = last.at

\* A reset of a log that held interactions, at a later time than the
\* session's start.
C25_Witness ==
    /\ last.op = "reset"
    /\ last.before.messages # <<>> /\ last.before.interactionCount > 0
    /\ last.at > last.before.sessionStartTime
    /\ messages = <<>>

----------------------------------------------------------------------------
(* Properties of the successor of a filled slot *)

\* The branches of chief_complaint, as declared, whose pattern matches the
\* lowercase string form of the slot's value.
MatchingBranches ==
    LET cfg == slots.cfg["chief_complaint"]
    IN {i \in 1..Len(cfg.branches) :
           isMatch(cfg.branches[i].pattern,
                   LowerValue(call.filledSlots["chief_complaint"]))}

C27_TerminalWithoutUnfilledIsNone ==
    (/\ call.done
     /\ MatchingBranches = {}
     /\ slots.cfg["chief_complaint"].next_default = NoSlot) =>
        /\ call.next = NoSlot
        /\ call.result = NoSlot

\* SLOT_SCHEMA with chief_complaint = "a cold": none is returned though
\* months_ttc is unfilled.
C27_Witness ==
    /\ call.done
    /\ slots = SLOT_SCHEMA
    /\ call.filledSlots["chief_complaint"] = Str("a cold")
    /\ call.filledSlots["months_ttc"] = Undefined
    /\ MatchingBranches = {}
    /\ call.result = NoSlot

----------------------------------------------------------------------------
(* Properties of validateSlotValue and of the rejections of the merge *)

\* C29 as stated: for a known slot validateSlotValue returns invalid for
\* null, for undefined and for the empty string, and valid for every other
\* value, the empty list and the booleans among them.
C29_InvalidAreNullUndefinedEmpty ==
    (call.done /\ call.slotName \in SlotIds(slots)) =>
        (call.result.isValid <=> call.value \notin {Null, Undefined, Str("")})

\* C29: for a known slot validateSlotValue returns invalid for null, for
\* undefined and for a string that is empty once trimmed (the empty string,
\* a string of white space), and valid for every other value: the empty
\* list, a list with entries, both booleans, any other string.
C29_InvalidAreNullUndefinedBlank ==
    (call.done /\ call.slotName \in SlotIds(slots)) =>
        (call.result.isValid <=>
            /\ call.value.t \notin {"null", "undefined"}
            /\ ~(call.value.t = "str" /\ trim(call.value.s) = ""))

\* A string of white space, found invalid for a known slot.
C29_Witness ==
    /\ call.done /\ call.slotName \in SlotIds(slots)
    /\ call.value = Str("   ")
    /\ ~call.result.isValid

\* C30: every entry of the list of rejected extractions the merge returns
\* carries a reason, whatever it was rejected for.
C30_EveryRejectionCarriesReason ==
    merge.done =>
        \A i \in 1..Len(merge.failedExtractions) :
           merge.failedExtractions[i].error # NoError

----------------------------------------------------------------------------
(* Properties of the review summary *)

\* The items of a list with ", " between two neighbours.
CommaJoined(l) ==
    [i \in 1..(IF l = <<>> THEN 0 ELSE 2 * Len(l) - 1) |->
        IF i % 2 = 1 THEN l[(i + 1) \div 2] ELSE ", "]

\* The text a review line is to show for a stored value.
Rendered(v) ==
    CASE v = Bool(TRUE) -> <<"Yes">>
      [] v = Bool(FALSE) -> <<"No">>
      [] v.t = "list" -> CommaJoined(v.l)
      [] OTHER -> <<v.s>>

\* C31: the review rendered from the slots a merge returns has exactly one
\* line per filled slot, and the line of every slot the merge stored a value
\* in shows that value: Yes or No for a boolean, the items joined by ", " for
\* a list, the text itself otherwise.
C31_ReviewShowsMergedValues ==
    merge.done =>
        /\ DOMAIN generateReviewMessage(slots, merge.updatedSlots) =
              {k \in SlotNames : merge.updatedSlots[k] # Undefined}
        /\ \A i \in 1..Len(merge.successfulExtractions) :
              generateReviewMessage(slots, merge.updatedSlots)
                    [merge.successfulExtractions[i].slotName].text =
                 Rendered(merge.updatedSlots[merge.successfulExtractions[i].slotName])

\* A merge that stored a boolean and a list of two items beside a text that
\* was filled before.
C31_Witness ==
    /\ merge.done
    /\ Len(merge.successfulExtractions) = 2
    /\ merge.updatedSlots["has_partner"] = Bool(FALSE)
    /\ merge.updatedSlots["chief_complaint"] = List(<<"fertility", "pain">>)
    /\ merge.updatedSlots["full_name"] = Str("Jane Doe")

----------------------------------------------------------------------------
(* Properties of the clarify action and of the single-slot path *)

\* C32: when the router's action is clarify, the turn is logged as one pair
\* with a null extracted value, the result is a reprompt flagged as a
\* clarification that carries no filledSlots and no next question, and the
\* host keeps its filledSlots and (unless it then asks for a skip) its
\* current slot.
C32_ClarifyKeepsSlotAndLogsNull ==
    (turn.called /\ turn.action = "clarify") =>
        /\ Len(messages) = Len(turn.before.messages) + 2
        /\ SubSeq(messages, 1, Len(turn.before.messages)) = turn.before.messages
        /\ interactionCount = turn.before.interactionCount + 1
        /\ IsPair(messages[Len(messages) - 1], messages[Len(messages)],
                  turn.currentSlot, <<turn.userResponse>>, Null)
        /\ ~turn.result.success /\ turn.result.shouldReprompt
        /\ turn.result.isClarification
        /\ turn.result.error # <<>>
        /\ turn.result.filledSlots = None
        /\ turn.result.slot = NoSlot /\ turn.result.message = NoMessage
        /\ ~turn.result.isReview /\ ~turn.result.isComplete
        /\ interviewState.filledSlots = turn.before.interviewState.filledSlots
        /\ ~turn.skipped =>
              interviewState.currentSlot = turn.before.interviewState.currentSlot

\* A clarify turn on a session that had filled a slot and logged a turn.
C32_Witness ==
    /\ turn.called /\ turn.action = "clarify"
    /\ turn.before.messages # <<>>
    /\ turn.before.interviewState.filledSlots # EmptySlots
    /\ interviewState.currentSlot = turn.currentSlot

\* C33: of a turn the router answered with extract, every candidate the
\* extraction delegate produced is in the accepted list or in the rejected
\* list of the merge, and the two lists together have as many entries as
\* candidates were produced.
C33_EveryCandidateAcceptedOrRejected ==
    (turn.called /\ turn.action = "extract" /\ ~turn.d.multi.threw) =>
        /\ Len(turn.accepted) + Len(turn.rejected) = Len(turn.d.multi.extractions)
        /\ \A i \in 1..Len(turn.d.multi.extractions) :
              \/ \E j \in 1..Len(turn.accepted) :
                    /\ turn.accepted[j].slotName = turn.d.multi.extractions[i].slotName
                    /\ turn.accepted[j].confidence = turn.d.multi.extractions[i].confidence
              \/ \E j \in 1..Len(turn.rejected) :
                    /\ turn.rejected[j].slotName = turn.d.multi.extractions[i].slotName
                    /\ turn.rejected[j].confidence = turn.d.multi.extractions[i].confidence

----------------------------------------------------------------------------
(* Properties of the host's retries *)

\* C34: a failed turn on a slot whose retry count has reached 2 makes the
\* host skip: the slot it then presents is another one than the slot that
\* kept failing, the retry count starts again, and the host takes further
\* turns, so that the interview can go on to the review.
C34_ForceSkipPresentsAnotherSlot ==
    (turn.called /\ turn.skipped) =>
        /\ turn.before.interviewState.retryCount >= RetryLimit
        /\ ~turn.result.success
        /\ interviewState.currentSlot # turn.currentSlot
        /\ interviewState.retryCount = 0
        /\ ~loading

\* C35: a turn of the single-slot path (the router answered ask or failed,
\* or hybrid mode is off) returns filledSlots that equal the input on every
\* slot other than the current one, and the host holds them afterwards; with
\* hybrid mode off the routing delegate is not consulted and the turn is a
\* single-slot turn.
C35_SingleSlotChangesCurrentSlotOnly ==
    /\ SingleSlotTurn =>
          /\ turn.path \in {"single-nothing", "single-invalid", "single-stored"}
          /\ turn.accepted = <<>> /\ turn.candidates = <<>>
          /\ turn.result.success =>
                \A k \in SlotNames \ {turn.currentSlot} :
                   /\ turn.result.filledSlots[1][k] = turn.filledSlots[k]
                   /\ interviewState.filledSlots[k] = turn.filledSlots[k]
          /\ ~turn.result.success => interviewState.filledSlots = turn.filledSlots
    /\ (turn.called /\ ~turn.hybridMode) => turn.action = "none"

\* A single-slot turn with hybrid mode off that stored a value for the
\* current slot beside slots filled before.
C35_Witness ==
    /\ SingleSlotTurn /\ ~turn.hybridMode
    /\ turn.result.success
    /\ turn.filledSlots # EmptySlots
    /\ turn.result.filledSlots[1][turn.currentSlot] # turn.filledSlots[turn.currentSlot]

----------------------------------------------------------------------------
(* Properties of the log under overlapping handlers *)

\* C36: in every state, whatever handlers are suspended between their calls
\* of saveInteraction, the log holds twice as many messages as interactions
\* were counted, an interviewer's message at every odd position and a
\* respondent's at every even one, and a read of the statistics shows
\* these figures.
C36_LogAlternatesInPairs ==
    /\ Len(messages) = 2 * interactionCount
    /\ \A i \in 1..Len(messages) :
          messages[i].type = IF i % 2 = 1 THEN "ai" ELSE "human"
    /\ stats.read => stats.stats.totalMessages = 2 * stats.stats.totalInteractions

\* Two handlers are suspended with calls of saveInteraction to come, each
\* has made one, and the statistics were read.
C36_Witness ==
    /\ \A h \in Handlers : handlers[h].suspended /\ handlers[h].pending # <<>>
    /\ Len(messages) >= 4
    /\ messages[2].slotName # messages[4].slotName
    /\ stats.read /\ stats.stats.totalMessages > 0

----------------------------------------------------------------------------
(* Properties that relate the log and the slots *)

\* C37: after a successful turn, every respondent message the turn logged
\* with a slot and a non-null extracted value names a slot that holds this
\* value in the filledSlots the turn returned, and the slots getFilledSlots
\* rebuilds from the log are the filledSlots the turn returned.
C37_LogAgreesWithFilledSlots ==
    (turn.called /\ turn.result.success) =>
        /\ \A i \in (Len(turn.before.messages) + 1)..Len(messages) :
              (messages[i].type = "human" /\ messages[i].extractedValue # Null) =>
                 turn.result.filledSlots[1][messages[i].slotName] =
                    messages[i].extractedValue
        /\ getFilledSlots(Memory(messages, interactionCount)) = turn.result.filledSlots[1]

\* C38: after any sequence of turns started with an empty filledSlots, every
\* key of the filledSlots a turn returns and of the filledSlots the host
\* holds is a slot id of the graph, whatever slot names the delegates wrote.
C38_FilledKeysAreSlotIds ==
    /\ \A k \in SlotNames :
          interviewState.filledSlots[k] # Undefined => k \in SlotIds(slots)
    /\ (turn.called /\ turn.result.success) =>
          \A k \in SlotNames :
             turn.result.filledSlots[1][k] # Undefined => k \in SlotIds(slots)

\* C39: after every turn of the host, whichever way it went (success, review,
\* reprompt, failed turn followed by a skip, failed skip), the loading flag
\* that sendMessage set is clear again, so that the next sendMessage is
\* not turned away.
C39_LoadingIsClearedAfterEveryTurn ==
    turn.called => ~loading

====
